---- MODULE Spec2Model ----
(***************************************************************************)
(* Payment-receipt pipeline of reachowl/gdp-dashboard.                     *)
(*                                                                         *)
(* Two programs of the repository implement the pipeline:                  *)
(*   - the ledger of the Telegram bot (telebot/extenso/database.py,        *)
(*     staff_commands.py, main_bot.py): payments, resident balances and    *)
(*     the staff review actions, over SQLite;                              *)
(*   - the LINE processor (line_processor_final.py): field extraction,     *)
(*     classification, the Firestore payment records, the report runs and  *)
(*     their scheduler.                                                    *)
(* SpecLedger runs the first, SpecExtract and SpecReport the second.       *)
(***************************************************************************)
EXTENDS Integers, Sequences, FiniteSets, TLC

VARIABLES
    now,          \* the wall clock, datetime.now(), in ticks
    payments,     \* SQLite table payments: row id -> row (ids are 1..Len)
    residents,    \* SQLite table residents: unit -> row
    caller,       \* each caller of Database.update_payment_status: its position
    staff_reply,  \* the message handle_payment_callback last showed the staff user
    notices,      \* the messages handle_payment_callback sent to residents, in order
    conv,         \* per resident, the payment conversation: its state, user_data, last reply
    uploads,      \* the number of receipt photos saved to the upload folder
    listing,      \* the payments list_pending_payments last showed, in order
    chat,         \* per Telegram user: user_data and, per chat, both conversations' states
    registered,   \* the last call of update_resident_registration and what it returned
    docs,         \* Firestore collection of payment records, in order of creation
    settings,     \* Firestore document settings/report: its last_report_time, if any
    img,          \* the record handle_image_message has built and not yet saved
    run,          \* each thread that may execute run_scheduled_report: its position
    sched,        \* the scheduler thread: its position in scheduler_loop
    reported,     \* per payment record, the number of report runs that had it in their rows
    undisturbed,  \* so far no two report runs overlapped and the store answered every run
    mock,         \* the FirestoreMock object: its last_report_time, its last query and result
    ocr           \* the call of _image_to_text: its position, loop variables and outcome

ledgerVars == <<payments, residents, caller, staff_reply, notices, conv, uploads,
                listing, chat, registered>>

lineVars == <<docs, settings, img, run, sched, reported, undisturbed, mock, ocr>>

vars == <<now, payments, residents, caller, staff_reply, notices, conv, uploads,
          listing, chat, registered,
          docs, settings, img, run, sched, reported, undisturbed, mock, ocr>>

----------------------------------------------------------------------------
(* Bounds of the model *)

MaxTime == 3
MaxPayments == 2
MaxDocs == 1
MaxUploads == 2
MaxThreads == 1
TickSeconds == 30

----------------------------------------------------------------------------
(* The clock *)

\* datetime.now(): the clock never goes back; two reads may see the same tick.
Tick ==
    /\ now < MaxTime
    /\ now' = now + 1

----------------------------------------------------------------------------
(* Ledger: telebot/extenso/database.py *)

Null == <<>>
Some(x) == <<x>>

\* residents_data of setup_test_data.py: the seeded units and what they owe.
Units == {"88/01", "88/02"}

SeedBalance(u) == IF u = "88/01" THEN 0 - 5000000 ELSE 0 - 120000

\* amounts in satang: the seeded pending payment and one month's charge
Amounts == {100050, 50000}

\* the receipt_filename of the seeded pending payment
SeedReceipt == "AgACAgIA..."

\* first names of the staff users, the verified_by the callback passes
Operators == {"opA", "opB"}
Users == Operators \cup {"resident"}

\* the Telegram users who talk to the bot
TelegramIds == {"u1", "u2"}

\* the chats a user talks to the bot in: conversations are kept per chat and
\* user, context.user_data per user
Chats == {"private", "group"}

\* the concurrent callers of update_payment_status, one call per staff user
Callers == Operators

\* Permissions.is_operator
is_operator(user) == user \in Operators

\* residents_data: 88/01 is unregistered, 88/02 is registered to the test id
SeedTelegram(u) == IF u = "88/02" THEN Some("u2") ELSE Null

SeedResidents ==
    [u \in Units |-> [current_balance |-> SeedBalance(u), last_payment_date |-> Null,
                      telegram_id |-> SeedTelegram(u)]]

\* INSERT INTO payments: status defaults to 'pending', verified_by and
\* verification_date to NULL, created_at to CURRENT_TIMESTAMP.
NewPayment(unit, amount, receipt_filename, t) ==
    [unit |-> unit, amount |-> amount, receipt_filename |-> receipt_filename,
     status |-> "pending",
     verified_by |-> Null, verification_date |-> Null, created_at |-> t]

\* an insert that puts the amount on the unit's balance at once
add_payment_credits(unit, amount, receipt_filename) ==
    /\ Len(payments) < MaxPayments
    /\ amount > 0
    /\ payments' = Append(payments, NewPayment(unit, amount, receipt_filename, now))
    /\ residents' = [residents EXCEPT ![unit].current_balance = @ + amount]
    /\ UNCHANGED <<now, caller, staff_reply, notices, conv, uploads, listing, chat, registered>>

\* Database.add_payment, called by receive_payment_details once the amount
\* parsed to a positive number of satang.
add_payment(unit, amount, receipt_filename) ==
    /\ Len(payments) < MaxPayments
    /\ amount > 0
    /\ payments' = Append(payments, NewPayment(unit, amount, receipt_filename, now))
    /\ UNCHANGED <<now, residents, caller, staff_reply, notices, conv, uploads, listing, chat, registered>>

\* the UPDATE without the write of verified_by
PaymentsAfterUpdateNoStaff(ps, id, status, by, t) ==
    [ps EXCEPT ![id].status = status,
               ![id].verification_date = Some(t)]

\* UPDATE payments SET status = ?, verified_by = ?, verification_date = ? WHERE id = ?
\* The statement has no condition on the row's current status.
PaymentsAfterUpdate(ps, id, status, by, t) ==
    [ps EXCEPT ![id].status = status,
               ![id].verified_by = Some(by),
               ![id].verification_date = Some(t)]

\* the credit without the write of last_payment_date
ResidentsAfterUpdateNoDate(rs, unit, amount, status, t) ==
    IF status = "verified" /\ unit \in DOMAIN rs
    THEN [rs EXCEPT ![unit].current_balance = @ + amount]
    ELSE rs

\* if status == 'verified': UPDATE residents SET current_balance =
\* current_balance + ?, last_payment_date = ? WHERE unit = ?
ResidentsAfterUpdate(rs, unit, amount, status, t) ==
    IF status = "verified" /\ unit \in DOMAIN rs
    THEN [rs EXCEPT ![unit].current_balance = @ + amount,
                    ![unit].last_payment_date = Some(t)]
    ELSE rs

IdleCaller ==
    [pc |-> "idle", id |-> 0, status |-> "none",
     unit |-> "none", amount |-> 0, result |-> "none", overlapped |-> FALSE]

\* the first half answering True for an id that has no row
update_payment_status_select_unknown_true(c, id, status) ==
    /\ caller[c].pc = "idle"
    /\ caller' = [caller EXCEPT ![c] =
          IF id \in DOMAIN payments
          THEN [pc |-> "selected", id |-> id, status |-> status,
                unit |-> payments[id].unit, amount |-> payments[id].amount,
                result |-> "none", overlapped |-> FALSE]
          ELSE [IdleCaller EXCEPT !.pc = "done", !.id = id,
                !.status = status, !.result = "True"]]
    /\ UNCHANGED <<now, payments, residents, staff_reply, notices, conv, uploads, listing, chat, registered>>

\* Database.update_payment_status, first half: SELECT unit, amount FROM
\* payments WHERE id = ?; an unknown id returns False. The SELECT runs in
\* autocommit mode, so another caller's transaction may commit after it.
\* overlapped records, for the properties only, that two calls on one id
\* were in flight together.
update_payment_status_select(c, id, status) ==
    /\ caller[c].pc = "idle"
    /\ LET found == id \in DOMAIN payments
           others == {d \in Callers \ {c} :
                        caller[d].pc = "selected" /\ caller[d].id = id}
       IN caller' = [d \in Callers |->
             IF d = c
             THEN IF found
                  THEN [pc |-> "selected", id |-> id, status |-> status,
                        unit |-> payments[id].unit, amount |-> payments[id].amount,
                        result |-> "none", overlapped |-> others # {}]
                  ELSE [IdleCaller EXCEPT !.pc = "done", !.id = id,
                        !.status = status, !.result = "False"]
             ELSE IF found /\ d \in others
                  THEN [caller[d] EXCEPT !.overlapped = TRUE]
                  ELSE caller[d]]
    /\ UNCHANGED <<now, payments, residents, staff_reply, notices, conv, uploads, listing, chat, registered>>

\* Database.update_payment_status, second half: the two UPDATEs and the commit,
\* one SQLite write transaction; returns True.
update_payment_status_commit(c) ==
    /\ caller[c].pc = "selected"
    /\ payments' = PaymentsAfterUpdate(payments, caller[c].id, caller[c].status,
                                       c, now)
    /\ residents' = ResidentsAfterUpdate(residents, caller[c].unit,
                                         caller[c].amount, caller[c].status, now)
    /\ caller' = [caller EXCEPT ![c].pc = "done", ![c].result = "True"]
    /\ UNCHANGED <<now, staff_reply, notices, conv, uploads, listing, chat, registered>>

----------------------------------------------------------------------------
(* Review workflow: telebot/extenso/staff_commands.py *)

\* db.get_payment_details(payment_id): the row with its status, or None
get_payment_details(id) ==
    IF id \in DOMAIN payments THEN Some(payments[id]) ELSE Null

\* the keys of the messages dictionary of Messages.get_message
MessageKeys ==
    {"welcome", "welcome_admin", "welcome_operator", "language_set", "help_text",
     "conversation_cancelled", "register_prompt", "pin_prompt",
     "registration_success", "already_registered", "main_menu_resident",
     "current_balance", "menu_check_balance", "menu_report_payment",
     "payment_prompt_receipt", "payment_prompt_details", "payment_report_success",
     "payment_verified_resident", "payment_rejected_resident",
     "staff_payment_notification", "staff_payment_verified_log",
     "staff_payment_rejected_log", "staff_payment_already_processed",
     "staff_pending_payments", "staff_support_log_message",
     "support_message_received", "support_message_failed", "staff_resident_info",
     "staff_resident_count", "not_registered", "unit_not_found", "pin_incorrect",
     "staff_access_required", "admin_access_required"}

KeyNotFound == "Error: Message key not found."

\* Messages.get_message: the text of the key (named here by its key), or the
\* error text when the dictionary has no such key
get_message(key) == IF key \in MessageKeys THEN key ELSE KeyNotFound

\* f'payment_{new_status}_resident_notify'
notification_key(new_status) ==
    IF new_status = "verified" THEN "payment_verified_resident_notify"
    ELSE "payment_rejected_resident_notify"

\* context.bot.send_message to the resident of the payment's unit, read back
\* after the update: the text and the balance it is given
Notice(id, unit, new_status, rs, delivered) ==
    [payment |-> id, unit |-> unit,
     text |-> get_message(notification_key(new_status)),
     new_balance |-> rs[unit].current_balance,
     delivered |-> delivered]

\* The wrapper Permissions.require_operator puts in the place of a staff
\* command, called for a user who is no operator. The wrapper is a plain
\* function of (update, context) stored as an attribute of the class, so the
\* handler the Application calls is a bound method and the call passes three
\* arguments: it raises TypeError before the check is reached, no message is
\* sent, and the Application logs the exception.
require_operator_wrapper(user) ==
    /\ ~is_operator(user)
    /\ staff_reply' = "TypeError"
    /\ UNCHANGED <<now, payments, residents, caller, notices, conv, uploads, listing, chat, registered>>

\* the handler taking the decision back when send_message raises
handle_payment_callback_undone_on_failure(user, action, id) ==
    /\ is_operator(user)
    /\ LET payment == get_payment_details(id)
           new_status == IF action = "approve" THEN "verified" ELSE "rejected"
       IN IF payment = Null
          THEN /\ staff_reply' = "payment_not_found"
               /\ UNCHANGED <<payments, residents, notices>>
          ELSE IF payment[1].status # "pending"
          THEN /\ staff_reply' = "already_processed"
               /\ UNCHANGED <<payments, residents, notices>>
          ELSE IF action = "receipt"
          THEN /\ \E sent \in BOOLEAN :
                     staff_reply' = IF sent THEN "receipt_caption"
                                    ELSE "receipt_send_error"
               /\ UNCHANGED <<payments, residents, notices>>
          ELSE \E delivered \in BOOLEAN :
                  LET rs == ResidentsAfterUpdate(residents, payment[1].unit,
                                payment[1].amount, new_status, now)
                      notified == rs[payment[1].unit].telegram_id # Null
                  IN /\ notices' = IF notified
                                   THEN Append(notices,
                                            Notice(id, payment[1].unit, new_status,
                                                   rs, delivered))
                                   ELSE notices
                     /\ IF notified /\ ~delivered
                        THEN UNCHANGED <<payments, residents, staff_reply>>
                        ELSE /\ payments' = PaymentsAfterUpdate(payments, id,
                                                new_status, user, now)
                             /\ residents' = rs
                             /\ staff_reply' = IF new_status = "verified"
                                               THEN "payment_verified_confirmation"
                                               ELSE "payment_rejected_confirmation"
    /\ UNCHANGED <<now, caller, conv, uploads, listing, chat, registered>>

\* BilingualStaffCommands.handle_payment_callback for approve_<id>,
\* reject_<id> and receipt_<id>, as the body runs for an operator. Between the
\* status check and the update there is no await, so the event loop runs them
\* as one step. The resident is notified if the unit's row has a telegram_id.
\* When send_message raises, the handler ends there and the staff message is
\* not edited. Every row has a receipt_filename (NOT NULL, and each insert names
\* one); for receipt_<id> the file is opened and sent as a photo to the staff
\* user, or open or send_photo raises and the staff message is edited.
handle_payment_callback(user, action, id) ==
    /\ is_operator(user)
    /\ LET payment == get_payment_details(id)
           new_status == IF action = "approve" THEN "verified" ELSE "rejected"
       IN IF payment = Null
          THEN /\ staff_reply' = "payment_not_found"
               /\ UNCHANGED <<payments, residents, notices>>
          ELSE IF payment[1].status # "pending"
          THEN /\ staff_reply' = "already_processed"
               /\ UNCHANGED <<payments, residents, notices>>
          ELSE IF action = "receipt"
          THEN /\ \E sent \in BOOLEAN :
                     staff_reply' = IF sent THEN "receipt_caption"
                                    ELSE "receipt_send_error"
               /\ UNCHANGED <<payments, residents, notices>>
          ELSE /\ payments' = PaymentsAfterUpdate(payments, id, new_status, user, now)
               /\ residents' = ResidentsAfterUpdate(residents, payment[1].unit,
                                    payment[1].amount, new_status, now)
               /\ \E delivered \in BOOLEAN :
                     /\ notices' = IF residents'[payment[1].unit].telegram_id = Null
                                   THEN notices
                                   ELSE Append(notices,
                                            Notice(id, payment[1].unit, new_status,
                                                   residents', delivered))
                     /\ staff_reply' = IF notices' # notices /\ ~delivered
                                       THEN staff_reply
                                       ELSE IF new_status = "verified"
                                       THEN "payment_verified_confirmation"
                                       ELSE "payment_rejected_confirmation"
    /\ UNCHANGED <<now, caller, conv, uploads, listing, chat, registered>>

----------------------------------------------------------------------------
(* The ledger's initial state and steps *)

\* the ids of the rows with status 'pending'
PendingIds == {id \in DOMAIN payments : payments[id].status = "pending"}

\* the sequences that hold each id of ids once
Orders(ids) ==
    {s \in [1..Cardinality(ids) -> ids] :
        \A i, j \in 1..Cardinality(ids) : i # j => s[i] # s[j]}

\* the SELECT without its ORDER BY: the pending rows in any order
get_pending_payments_any_order == Orders(PendingIds)

\* Database.get_pending_payments: SELECT * FROM payments WHERE status =
\* 'pending' ORDER BY created_at ASC; rows of one created_at come in an order
\* SQL leaves open
get_pending_payments ==
    {s \in Orders(PendingIds) :
        \A i, j \in 1..Len(s) :
            i < j => payments[s[i]].created_at <= payments[s[j]].created_at}

\* BilingualStaffCommands.list_pending_payments (/pending): one message with
\* its buttons for each pending payment, in the order of the query; none when
\* the query is empty
list_pending_payments(user) ==
    /\ is_operator(user)
    /\ \E pending_payments \in get_pending_payments :
          listing' = Some(pending_payments)
    /\ UNCHANGED <<now, payments, residents, caller, staff_reply, notices, conv, uploads, chat, registered>>

\* a resident outside the payment conversation, user_data empty
\* a chat in which neither conversation is in a state
IdleTalk ==
    [registration |-> "END", payment |-> "END", started_for |-> Null,
     photo_stored |-> FALSE]

\* a Telegram user in no conversation, with an empty context.user_data
IdleChat ==
    [user_data |-> [unit |-> Null, receipt_filename |-> Null],
     talks |-> [c \in Chats |-> IdleTalk], reply |-> "none"]

IdleConv ==
    [state |-> "END", unit |-> Null, receipt_filename |-> Null, reply |-> "none"]

InitLedger ==
    /\ now = 0
    /\ payments = <<>>
    /\ residents = SeedResidents
    /\ caller = [c \in Callers |-> IdleCaller]
    /\ staff_reply = "none"
    /\ notices = <<>>
    /\ conv = [u \in Units |-> IdleConv]
    /\ uploads = 0
    /\ listing = Null
    /\ chat = [t \in TelegramIds |-> IdleChat]
    /\ registered = Null

\* The store, called directly: add_payment and concurrent update_payment_status.
NextLedger ==
    \/ Tick /\ UNCHANGED ledgerVars /\ UNCHANGED lineVars
    \/ (\E u \in Units, a \in Amounts : add_payment(u, a, SeedReceipt)) /\ UNCHANGED lineVars
    \/ (\E c \in Callers, id \in 1..MaxPayments, s \in {"verified", "rejected"} :
            update_payment_status_select(c, id, s)) /\ UNCHANGED lineVars
    \/ (\E c \in Callers : update_payment_status_commit(c)) /\ UNCHANGED lineVars

\* The store behind the review workflow: every update goes through the callback.
NextReview ==
    \/ Tick /\ UNCHANGED ledgerVars /\ UNCHANGED lineVars
    \/ (\E u \in Units, a \in Amounts : add_payment(u, a, SeedReceipt)) /\ UNCHANGED lineVars
    \/ (\E u \in Users, a \in {"approve", "reject"}, id \in 1..MaxPayments :
            handle_payment_callback(u, a, id)) /\ UNCHANGED lineVars

----------------------------------------------------------------------------
(* Properties of the ledger *)

RECURSIVE SumAmounts(_, _)
SumAmounts(ps, ids) ==
    IF ids = {} THEN 0
    ELSE LET id == CHOOSE x \in ids : TRUE
         IN ps[id].amount + SumAmounts(ps, ids \ {id})

\* the rows of unit u whose status is s
RowsOf(u, s) == {id \in DOMAIN payments : payments[id].unit = u /\ payments[id].status = s}

\* two finished calls of update_payment_status on the same payment, both of
\* which found its row
TwoCallsDone(c, d) ==
    /\ c # d
    /\ caller[c].pc = "done" /\ caller[d].pc = "done"
    /\ caller[c].id = caller[d].id
    /\ caller[c].unit \in Units /\ caller[d].unit \in Units

Accepted(c) == caller[c].result = "True"

\* C1: of two resolve attempts that were in flight together on one pending
\* submission, exactly one is accepted, and the unit's balance is credited at
\* most once with the submission's amount.
C1_ConcurrentResolveOneWins ==
    \A c, d \in Callers :
        (TwoCallsDone(c, d) /\ caller[c].overlapped /\ caller[d].overlapped) =>
            /\ Accepted(c) # Accepted(d)
            /\ residents[caller[c].unit].current_balance
                   <= SeedBalance(caller[c].unit) + caller[c].amount

\* C2: of two resolve calls made one after the other with the same decision on
\* the same submission, the second is refused, and the balance has changed by
\* the credited amount exactly once.
C2_ResolveTwiceCreditsOnce ==
    \A c, d \in Callers :
        (TwoCallsDone(c, d) /\ ~caller[c].overlapped /\ ~caller[d].overlapped
            /\ caller[c].status = caller[d].status) =>
            /\ ~(Accepted(c) /\ Accepted(d))
            /\ residents[caller[c].unit].current_balance
                   = SeedBalance(caller[c].unit)
                     + (IF caller[c].status = "verified" THEN caller[c].amount ELSE 0)

\* C3: every balance is its seeded balance plus the amounts of the unit's
\* credited (verified) submissions, each counted once; rejected and pending
\* submissions contribute nothing.
C3_BalanceIsSeedPlusCredited ==
    \A u \in Units :
        residents[u].current_balance
            = SeedBalance(u) + SumAmounts(payments, RowsOf(u, "verified"))

\* C4: once a submission is verified or rejected, no step changes its status,
\* verified_by or verification_date, and the row stays in the table.
C4_TerminalRowNeverChanges ==
    [][\A id \in DOMAIN payments :
          payments[id].status \in {"verified", "rejected"} =>
              /\ id \in DOMAIN payments'
              /\ payments'[id].status = payments[id].status
              /\ payments'[id].verified_by = payments[id].verified_by
              /\ payments'[id].verification_date = payments[id].verification_date]_vars

----------------------------------------------------------------------------
(* Text: strings are sequences of characters; a Thai character is written  *)
(* by its code point.                                                      *)

Digits == {"0", "1", "2", "3", "4", "5", "6", "7", "8", "9"}
LowerLetters == {"a", "b", "c", "d", "e", "f", "g", "h", "i", "j", "k", "l", "m",
                 "n", "o", "p", "q", "r", "s", "t", "u", "v", "w", "x", "y", "z"}
UpperSeq == <<"A", "B", "C", "D", "E", "F", "G", "H", "I", "J", "K", "L", "M",
              "N", "O", "P", "Q", "R", "S", "T", "U", "V", "W", "X", "Y", "Z">>
LowerSeq == <<"a", "b", "c", "d", "e", "f", "g", "h", "i", "j", "k", "l", "m",
              "n", "o", "p", "q", "r", "s", "t", "u", "v", "w", "x", "y", "z">>
\* \s
Spaces == {" ", "\t", "\n"}
\* the characters of the range U+0E01..U+0E59 that the patterns and texts use
ThaiLetters == {"U+0E01", "U+0E02", "U+0E07", "U+0E08", "U+0E0A", "U+0E14", "U+0E17",
                "U+0E19", "U+0E1A", "U+0E1C", "U+0E21", "U+0E22", "U+0E23", "U+0E25",
                "U+0E27", "U+0E2D", "U+0E32", "U+0E33", "U+0E34", "U+0E35", "U+0E37",
                "U+0E39", "U+0E3F", "U+0E40", "U+0E42", "U+0E48", "U+0E49", "U+0E59"}

\* re.IGNORECASE: characters are compared in lower case
Lower(ch) ==
    IF \E k \in 1..26 : UpperSeq[k] = ch
    THEN LowerSeq[CHOOSE k \in 1..26 : UpperSeq[k] = ch]
    ELSE ch

\* text[a..b-1]
Slice(text, a, b) == SubSeq(text, a, b - 1)

RECURSIVE StripLeft(_)
StripLeft(text) ==
    IF text # <<>> /\ Head(text) \in Spaces THEN StripLeft(Tail(text)) ELSE text

RECURSIVE StripRight(_)
StripRight(text) ==
    IF text # <<>> /\ text[Len(text)] \in Spaces
    THEN StripRight(SubSeq(text, 1, Len(text) - 1))
    ELSE text

\* str.strip()
Strip(text) == StripRight(StripLeft(text))

\* str.replace(old, new) for a single character old
Replace(text, old, new) ==
    [k \in 1..Len(text) |-> IF text[k] = old THEN new ELSE text[k]]

\* str.replace(old, '') for a single character old
Remove(text, old) == SelectSeq(text, LAMBDA c : c # old)

----------------------------------------------------------------------------
(* Regular expressions, matched as Python's re does: leftmost match,       *)
(* alternatives in order, greedy repetition, backtracking.                 *)

Cls(S) == [t |-> "cls", s |-> S]
Lit(w) == [t |-> "lit", w |-> w]
Cat(rs) == [t |-> "cat", rs |-> rs]
Alt(rs) == [t |-> "alt", rs |-> rs]
Star(r) == [t |-> "star", r |-> r]
Opt(r) == [t |-> "opt", r |-> r]
Rep(r, m, n) == [t |-> "rep", r |-> r, m |-> m, n |-> n]
Plus(r) == Cat(<<r, Star(r)>>)

LitAt(w, text, i) ==
    /\ i + Len(w) - 1 <= Len(text)
    /\ \A k \in 1..Len(w) : Lower(text[i + k - 1]) = w[k]

\* Ends(r, text, i): the positions at which a match of r that starts at i may
\* end, in the order in which the backtracking matcher tries them.
RECURSIVE Ends(_, _, _), EndsCat(_, _, _), ThenAll(_, _, _)

ThenAll(es, rest, text) ==
    IF es = <<>> THEN <<>>
    ELSE EndsCat(rest, text, Head(es)) \o ThenAll(Tail(es), rest, text)

EndsCat(rs, text, i) ==
    IF rs = <<>> THEN <<i>>
    ELSE ThenAll(Ends(Head(rs), text, i), Tail(rs), text)

Ends(r, text, i) ==
    CASE r.t = "cls" ->
            IF i <= Len(text) /\ Lower(text[i]) \in r.s THEN <<i + 1>> ELSE <<>>
      [] r.t = "lit" ->
            IF LitAt(r.w, text, i) THEN <<i + Len(r.w)>> ELSE <<>>
      [] r.t = "cat" -> EndsCat(r.rs, text, i)
      [] r.t = "alt" ->
            IF r.rs = <<>> THEN <<>>
            ELSE Ends(Head(r.rs), text, i) \o Ends(Alt(Tail(r.rs)), text, i)
      [] r.t = "opt" -> Ends(r.r, text, i) \o <<i>>
      [] r.t = "star" ->
            ThenAll(SelectSeq(Ends(r.r, text, i), LAMBDA e : e > i), <<r>>, text)
                \o <<i>>
      [] r.t = "rep" ->
            IF r.n = 0 THEN <<i>>
            ELSE ThenAll(Ends(r.r, text, i),
                         <<Rep(r.r, IF r.m > 0 THEN r.m - 1 ELSE 0, r.n - 1)>>, text)
                    \o (IF r.m = 0 THEN <<i>> ELSE <<>>)

\* A pattern is what precedes its group 1, the group, and what follows it.
Pattern(pre, grp, post) == [pre |-> pre, grp |-> grp, post |-> post]

\* The matcher tries the ends es1 of what precedes the group in order, for
\* each the ends es2 of the group in order, and takes the first after which
\* the rest of the pattern matches (ends es3).
RECURSIVE FirstGroupEnd(_, _, _, _, _), TryPost(_, _, _, _, _, _),
          FirstGroupStart(_, _, _, _), TryGroup(_, _, _, _, _)

TryPost(es3, es2, e1, p, text, i) ==
    IF es3 # <<>>
    THEN Some([start |-> i, gstart |-> e1, gend |-> Head(es2), end |-> Head(es3)])
    ELSE FirstGroupEnd(Tail(es2), e1, p, text, i)

FirstGroupEnd(es2, e1, p, text, i) ==
    IF es2 = <<>> THEN Null
    ELSE TryPost(Ends(p.post, text, Head(es2)), es2, e1, p, text, i)

TryGroup(m, es1, p, text, i) ==
    IF m # Null THEN m ELSE FirstGroupStart(Tail(es1), p, text, i)

FirstGroupStart(es1, p, text, i) ==
    IF es1 = <<>> THEN Null
    ELSE TryGroup(FirstGroupEnd(Ends(p.grp, text, Head(es1)), Head(es1), p, text, i),
                  es1, p, text, i)

\* re.match at position i: the match the matcher finds first, or None
MatchAt(p, text, i) == FirstGroupStart(Ends(p.pre, text, i), p, text, i)

\* re.search: the match at the leftmost position that has one, or None
RECURSIVE SearchFrom(_, _, _), MatchOrNext(_, _, _, _)

MatchOrNext(m, p, text, i) ==
    IF m # Null THEN m ELSE SearchFrom(p, text, i + 1)

SearchFrom(p, text, i) ==
    IF i > Len(text) + 1 THEN Null
    ELSE MatchOrNext(MatchAt(p, text, i), p, text, i)

Search(p, text) == SearchFrom(p, text, 1)

\* match.group(1) and match.group(0)
Group1(text, m) == Slice(text, m[1].gstart, m[1].gend)
Group0(text, m) == Slice(text, m[1].start, m[1].end)

----------------------------------------------------------------------------
(* Field extraction: line_processor_final.py, ProductionLineOAProcessor    *)

LastUnit == 165

DigitChar(n) == <<"0", "1", "2", "3", "4", "5", "6", "7", "8", "9">>[n + 1]

DigitValue(d) == CHOOSE n \in 0..9 : DigitChar(n) = d

\* f"{i:02d}"
Fmt02d(i) ==
    IF i < 10 THEN <<"0", DigitChar(i)>>
    ELSE IF i < 100 THEN <<DigitChar(i \div 10), DigitChar(i % 10)>>
    ELSE <<DigitChar(i \div 100), DigitChar((i \div 10) % 10), DigitChar(i % 10)>>

\* _generate_valid_units: "88/01" .. "88/165"
valid_units == {<<"8", "8", "/">> \o Fmt02d(i) : i \in 1..LastUnit}

EmptyRe == Cat(<<>>)
DigitRe == Cls(Digits)
SpaceRe == Cls(Spaces)

\* _get_regex_patterns
PatternUnitId ==
    Pattern(Lit(<<"8", "8", "/">>),
            Alt(<<Cat(<<Cls({"0"}), Cls(Digits \ {"0"})>>),
                  Cat(<<Cls(Digits \ {"0"}), DigitRe>>),
                  Cat(<<Cls({"1"}), Cls({"0", "1", "2", "3", "4", "5"}), DigitRe>>),
                  Cat(<<Lit(<<"1", "6">>), Cls({"0", "1", "2", "3", "4", "5"})>>)>>),
            EmptyRe)

PatternFeeMonth ==
    Pattern(EmptyRe,
            Cat(<<Rep(DigitRe, 4, 4), Cls({"-", "/", "."}), Rep(DigitRe, 1, 2)>>),
            EmptyRe)

PatternEmail ==
    Pattern(EmptyRe,
            Cat(<<Plus(Cls(LowerLetters \cup Digits \cup {".", "_", "%", "+", "-"})),
                  Lit(<<"@">>),
                  Plus(Cls(LowerLetters \cup Digits \cup {".", "-"})),
                  Lit(<<".">>),
                  Rep(Cls(LowerLetters), 2, 2), Star(Cls(LowerLetters))>>),
            EmptyRe)

PatternAmount ==
    Pattern(EmptyRe,
            Cat(<<Plus(Cls(Digits \cup {","})), Opt(Lit(<<".">>)), Star(DigitRe)>>),
            Cat(<<Star(SpaceRe),
                  Alt(<<Lit(<<"b", "a", "h", "t">>), Lit(<<"U+0E1A", "U+0E32", "U+0E17">>), Lit(<<"t", "o", "t", "a", "l">>), Lit(<<"a", "m", "o", "u", "n", "t">>),
                        Lit(<<"U+0E3F">>), Lit(<<"U+0E22", "U+0E2D", "U+0E14">>), Lit(<<"U+0E23", "U+0E27", "U+0E21">>),
                        Lit(<<"U+0E08", "U+0E33", "U+0E19", "U+0E27", "U+0E19", "U+0E40", "U+0E07", "U+0E34", "U+0E19">>)>>)>>))

PatternTransactionId ==
    Pattern(Cat(<<Alt(<<Cat(<<Lit(<<"t", "x", "n">>), Star(SpaceRe), Lit(<<"i", "d">>)>>),
                        Cat(<<Lit(<<"t", "r", "a", "n", "s", "a", "c", "t", "i", "o", "n">>), Star(SpaceRe), Lit(<<"i", "d">>)>>),
                        Cat(<<Lit(<<"r", "e", "f">>), Opt(Lit(<<".">>)), Star(SpaceRe), Lit(<<"n", "o">>)>>),
                        Lit(<<"U+0E40", "U+0E25", "U+0E02", "U+0E17", "U+0E35", "U+0E48", "U+0E2D", "U+0E49", "U+0E32", "U+0E07", "U+0E2D", "U+0E34", "U+0E07">>),
                        Lit(<<"U+0E40", "U+0E25", "U+0E02", "U+0E17", "U+0E35", "U+0E48", "U+0E23", "U+0E32", "U+0E22", "U+0E01", "U+0E32", "U+0E23">>)>>),
                  Opt(Lit(<<":">>)), Star(SpaceRe)>>),
            Plus(Cls(LowerLetters \cup Digits \cup {"-"} \cup Spaces)),
            EmptyRe)

PatternPayerName ==
    Pattern(Cat(<<Alt(<<Lit(<<"s", "e", "n", "d", "e", "r">>), Lit(<<"f", "r", "o", "m">>), Lit(<<"U+0E1C", "U+0E39", "U+0E49", "U+0E42", "U+0E2D", "U+0E19">>), Lit(<<"U+0E0A", "U+0E37", "U+0E48", "U+0E2D">>)>>),
                  Lit(<<":">>), Star(SpaceRe)>>),
            Plus(Cls(ThaiLetters \cup LowerLetters \cup Spaces \cup {"."})),
            EmptyRe)

patterns(pattern_key) ==
    CASE pattern_key = "unit_id" -> PatternUnitId
      [] pattern_key = "fee_month" -> PatternFeeMonth
      [] pattern_key = "email" -> PatternEmail
      [] pattern_key = "amount" -> PatternAmount
      [] pattern_key = "transaction_id" -> PatternTransactionId
      [] pattern_key = "payer_name" -> PatternPayerName

\* len(match.groups()): every pattern has one group
GroupCount(pattern_key) == 1

RECURSIVE DigitsValue(_)
DigitsValue(ds) ==
    IF ds = <<>> THEN 0
    ELSE 10 * DigitsValue(SubSeq(ds, 1, Len(ds) - 1)) + DigitValue(ds[Len(ds)])

RECURSIVE DropTrailingZeros(_)
DropTrailingZeros(ds) ==
    IF ds # <<>> /\ ds[Len(ds)] = "0"
    THEN DropTrailingZeros(SubSeq(ds, 1, Len(ds) - 1))
    ELSE ds

\* the positions of the points of value
Points(value) == {k \in 1..Len(value) : value[k] = "."}

\* float(value), value split at its point: the number as its integer part and
\* its decimals
FloatOf(whole, frac) ==
    IF whole \o frac = <<>> THEN Null
    ELSE Some([whole |-> DigitsValue(whole), frac |-> DropTrailingZeros(frac)])

\* float(value) for a value made of digits and points: ValueError (None)
\* without a digit or with two points
ParseFloat(value) ==
    IF Cardinality(Points(value)) > 1
          \/ \E k \in 1..Len(value) : value[k] \notin Digits \cup {"."}
    THEN Null
    ELSE IF Points(value) = {} THEN FloatOf(value, <<>>)
    ELSE FloatOf(Slice(value, 1, CHOOSE k \in Points(value) : TRUE),
                 SubSeq(value, (CHOOSE k \in Points(value) : TRUE) + 1, Len(value)))

\* _match_pattern, once re.search has answered
MatchValue(text, pattern_key, match) ==
    IF match = Null THEN Null
    ELSE IF pattern_key = "amount"
    THEN ParseFloat(Strip(Remove(Group1(text, match), ",")))
    ELSE IF pattern_key = "payer_name"
    THEN Some(Strip(IF GroupCount(pattern_key) > 1
                    THEN Group1(text, match) ELSE Group0(text, match)))
    ELSE Some(Strip(Group1(text, match)))

\* _match_pattern
match_pattern(text, pattern_key) ==
    MatchValue(text, pattern_key, Search(patterns(pattern_key), text))

\* the dictionary _extract_receipt_data returns
ExtractedData(amount, transaction_id, payer_name) ==
    [amount |-> amount,
     transaction_id |-> transaction_id,
     payer_name |-> payer_name,
     success |-> amount # Null /\ transaction_id # Null]

\* _extract_receipt_data, once the text is cleaned
ExtractFromClean(text_clean) ==
    ExtractedData(match_pattern(text_clean, "amount"),
                  match_pattern(text_clean, "transaction_id"),
                  match_pattern(text_clean, "payer_name"))

\* _extract_receipt_data
extract_receipt_data(ocr_text) ==
    ExtractFromClean(Strip(Replace(ocr_text, "\n", " ")))

----------------------------------------------------------------------------
(* Sample inputs of the LINE processor: captions and OCR texts             *)

CaptionAll == <<"U", "n", "i", "t", " ", "8", "8", "/", "0", "7", ",", " ", "2", "0", "2", "5", "-", "1", "1", ",", " ", "o", "w", "n", "e", "r", "@", "x", ".", "c", "o", "m">>
CaptionLast == <<"8", "8", "/", "1", "6", "5", " ", "2", "0", "2", "5", "/", "1">>
CaptionShortUnit == <<"8", "8", "/", "7", " ", "2", "0", "2", "5", "-", "1", "1">>
CaptionNoMonth == <<"8", "8", "/", "1", "2", " ", "a", "@", "b", ".", "c", "o">>
CaptionEmpty == <<>>

Captions == {CaptionAll, CaptionLast, CaptionShortUnit, CaptionNoMonth, CaptionEmpty}

OcrAll == <<"T", "o", "t", "a", "l", " ", "1", ",", "5", "0", "0", ".", "0", "0", " ", "B", "a", "h", "t", "\n", "R", "e", "f", " ", "N", "o", ":", " ", "A", "B", "C", "1", "2", "3", "\n", "F", "r", "o", "m", ":", " ", "S", "o", "m", "s", "a", "k", " ", "W", "o", "n", "g">>
OcrThai == <<"U+0E22", "U+0E2D", "U+0E14", " ", "2", "5", "0", ".", "5", " ", "U+0E1A", "U+0E32", "U+0E17", " ", "U+0E40", "U+0E25", "U+0E02", "U+0E17", "U+0E35", "U+0E48", "U+0E2D", "U+0E49", "U+0E32", "U+0E07", "U+0E2D", "U+0E34", "U+0E07", ":", " ", "X", "1">>
OcrNoAmount == <<"5", "0", "0", " ", "T", "H", "B", " ", "R", "e", "f", " ", "N", "o", ":", " ", "Q", "7">>
OcrNoReference == <<"1", "2", " ", "t", "o", "t", "a", "l">>
OcrFailed == <<"O", "C", "R", "_", "F", "A", "I", "L", "E", "D">>

OcrZeroAmount == <<"0", ".", "0", "0", " ", "B", "a", "h", "t", " ", "R", "e", "f", " ", "N", "o", ":", " ", "Z", "9">>

OcrTexts == {OcrAll, OcrThai, OcrNoAmount, OcrNoReference, OcrFailed, OcrZeroAmount}

----------------------------------------------------------------------------
(* handle_image_message: classification and the Firestore record           *)

NotAvailable == <<"N", "/", "A">>

\* unit_id in self.valid_units, for what _match_pattern returned
is_unit_valid(unit_id) == unit_id # Null /\ unit_id[1] \in valid_units

is_complete_no_unit_check(unit_id, fee_month, extracted_data) ==
    fee_month # Null /\ extracted_data.success

is_complete(unit_id, fee_month, extracted_data) ==
    is_unit_valid(unit_id) /\ fee_month # Null /\ extracted_data.success

\* step 5 of handle_image_message and the record it builds, but for the
\* timestamp
Record(caption_text, unit_id, fee_month, email, extracted_data) ==
    [unit_id |-> IF is_unit_valid(unit_id) THEN unit_id[1] ELSE NotAvailable,
     fee_month |-> IF fee_month # Null /\ fee_month[1] # <<>>
                   THEN fee_month[1] ELSE NotAvailable,
     email |-> IF email # Null /\ email[1] # <<>> THEN email[1] ELSE NotAvailable,
     amount |-> extracted_data.amount,
     transaction_id |-> extracted_data.transaction_id,
     payer_name |-> extracted_data.payer_name,
     timestamp |-> 0,
     status |-> IF is_complete(unit_id, fee_month, extracted_data)
                THEN "COMPLETED" ELSE "PENDING_ADMIN_REVIEW",
     source_text |-> caption_text,
     ocr_status |-> IF extracted_data.success THEN "SUCCESS" ELSE "FAILED"]

\* steps 2 to 5 of handle_image_message
RecordFields(caption_text, ocr_text) ==
    Record(caption_text,
           match_pattern(caption_text, "unit_id"),
           match_pattern(caption_text, "fee_month"),
           match_pattern(caption_text, "email"),
           extract_receipt_data(ocr_text))

\* the records of the sample inputs, computed once
SampleFields == [caption_text \in Captions, ocr_text \in OcrTexts |->
                    RecordFields(caption_text, ocr_text)]

\* handle_image_message up to the record: the caption and the OCR text are the
\* inputs; the record's timestamp is the clock at this point.
handle_image_message_build(caption_text, ocr_text) ==
    /\ img = Null
    /\ img' = Some([SampleFields[caption_text, ocr_text] EXCEPT !.timestamp = now])
    /\ UNCHANGED <<now, docs, settings, run, sched, reported, undisturbed, mock, ocr>>

\* step 6 of handle_image_message: the record is added to the collection, or
\* the store raises and the handler replies with the error and returns.
handle_image_message_save ==
    /\ img # Null
    /\ img' = Null
    /\ \/ /\ Len(docs) < MaxDocs
          /\ docs' = Append(docs, img[1])
          /\ reported' = Append(reported, 0)
       \/ UNCHANGED <<docs, reported>>
    /\ UNCHANGED <<now, settings, run, sched, undisturbed, mock, ocr>>

\* An admin marks a record under review as COMPLETED in the store (the report
\* covers these records too, send_report_email); the timestamp stays.
admin_marks_completed(d) ==
    /\ d \in DOMAIN docs
    /\ docs[d].status = "PENDING_ADMIN_REVIEW"
    /\ docs' = [docs EXCEPT ![d].status = "COMPLETED"]
    /\ UNCHANGED <<now, settings, img, run, sched, reported, undisturbed, mock, ocr>>

----------------------------------------------------------------------------
(* The report: run_scheduled_report, the scheduler thread, the endpoint    *)

morning_hour == 9
afternoon_hour == 16

\* the clock starts one tick before the morning report
ClockStart == morning_hour * 3600 - TickSeconds
Seconds(t) == ClockStart + t * TickSeconds
Hour(t) == (Seconds(t) \div 3600) % 24
Minute(t) == (Seconds(t) \div 60) % 60
Second(t) == Seconds(t) % 60

\* timedelta(days=1), in ticks
DayTicks == (24 * 3600) \div TickSeconds

\* time.sleep(seconds): the ticks that pass before the thread may go on
SleepTicks(seconds) == (seconds + TickSeconds - 1) \div TickSeconds

\* thread 0 is the scheduler's; the others are started by run_report_on_demand
SchedulerThread == 0
Threads == 1..MaxThreads
Runners == {SchedulerThread} \cup Threads

\* a thread that is not in run_scheduled_report; email is what became of the
\* report email of the run it made last
IdleRun ==
    [pc |-> "idle", report_start_time |-> 0, report_end_time |-> 0, rows |-> {},
     email |-> "none"]

InFlight(r) == run[r].pc # "idle"

StartRun(r) ==
    /\ run' = [run EXCEPT ![r] = [IdleRun EXCEPT !.pc = "read"]]
    /\ undisturbed' = (undisturbed /\ \A q \in Runners \ {r} : ~InFlight(q))

\* the scheduler thread, once run_scheduled_report has returned to it:
\* time.sleep(60), then the sleep at the end of the loop
SchedAfterReturn(r) ==
    IF r = SchedulerThread
    THEN [sched EXCEPT !.pc = "sleep60", !.wake = now + SleepTicks(60)]
    ELSE sched

\* _get_last_report_time: the stored time, or a day ago when it is missing
run_get_last_report_time(r) ==
    /\ run[r].pc = "read"
    /\ run' = [run EXCEPT ![r].pc = "capture",
                          ![r].report_start_time = IF settings # Null THEN settings[1]
                                                   ELSE now - DayTicks]
    /\ UNCHANGED <<now, docs, settings, img, sched, reported, undisturbed, mock, ocr>>

\* _get_last_report_time when the store raises: a day ago
run_get_last_report_time_raises(r) ==
    /\ run[r].pc = "read"
    /\ run' = [run EXCEPT ![r].pc = "capture", ![r].report_start_time = now - DayTicks]
    /\ undisturbed' = FALSE
    /\ UNCHANGED <<now, docs, settings, img, sched, reported, mock, ocr>>

\* report_end_time = datetime.now()
run_capture_end_time(r) ==
    /\ run[r].pc = "capture"
    /\ run' = [run EXCEPT ![r].pc = "query", ![r].report_end_time = now]
    /\ UNCHANGED <<now, docs, settings, img, sched, reported, undisturbed, mock, ocr>>

\* where status == COMPLETED, where timestamp > report_start_time
QueryRows(report_start_time) ==
    {d \in DOMAIN docs : /\ docs[d].status = "COMPLETED"
                         /\ docs[d].timestamp > report_start_time}

\* step 2 of run_scheduled_report when the store answers: the rows
run_query_rows(r) ==
    /\ run[r].pc = "query"
    /\ LET rows == QueryRows(run[r].report_start_time)
       IN /\ run' = [run EXCEPT ![r].pc = "email", ![r].rows = rows]
          /\ reported' = [d \in DOMAIN docs |->
                             IF d \in rows /\ reported[d] < 2
                             THEN reported[d] + 1 ELSE reported[d]]
    /\ UNCHANGED <<now, docs, settings, img, sched, undisturbed, mock, ocr>>

\* the run going on to the update of the stored time when the query raised
run_query_raises_then_update(r) ==
    /\ run[r].pc = "query"
    /\ run' = [run EXCEPT ![r] = IdleRun]
    /\ settings' = Some(run[r].report_end_time)
    /\ sched' = SchedAfterReturn(r)
    /\ undisturbed' = FALSE
    /\ UNCHANGED <<now, docs, img, reported, mock, ocr>>

\* step 2 of run_scheduled_report when the store raises: the run returns
run_query_raises(r) ==
    /\ run[r].pc = "query"
    /\ run' = [run EXCEPT ![r] = IdleRun]
    /\ sched' = SchedAfterReturn(r)
    /\ undisturbed' = FALSE
    /\ UNCHANGED <<now, docs, settings, img, reported, mock, ocr>>

\* what send_report_email can come to: the message is handed to the SMTP
\* server, or the credentials are missing or SMTP raises, which is printed
EmailOutcomes == {"sent", "failed"}

\* send_report_email called whatever create_report_csv counted
run_send_email_whatever_count(r) ==
    /\ run[r].pc = "email"
    /\ \E outcome \in EmailOutcomes :
          run' = [run EXCEPT ![r].pc = "finish", ![r].email = outcome]
    /\ UNCHANGED <<now, docs, settings, img, sched, reported, undisturbed, mock, ocr>>

\* steps 3 and 4 of run_scheduled_report: the CSV, and the email when there
\* are rows
run_send_email(r) ==
    /\ run[r].pc = "email"
    /\ \E outcome \in EmailOutcomes :
          run' = [run EXCEPT ![r].pc = "finish",
                             ![r].email = IF run[r].rows = {} THEN "skipped"
                                          ELSE outcome]
    /\ UNCHANGED <<now, docs, settings, img, sched, reported, undisturbed, mock, ocr>>

\* the update of the stored time left out when the run found no rows
run_finish_only_with_rows(r) ==
    /\ run[r].pc = "finish"
    /\ settings' = IF run[r].rows = {} THEN settings
                   ELSE Some(run[r].report_end_time)
    /\ run' = [run EXCEPT ![r] = [IdleRun EXCEPT !.email = run[r].email]]
    /\ sched' = SchedAfterReturn(r)
    /\ UNCHANGED <<now, docs, img, reported, undisturbed, mock, ocr>>

\* step 5 of run_scheduled_report: _update_last_report_time(report_end_time),
\* and the run returns
run_finish(r) ==
    /\ run[r].pc = "finish"
    /\ settings' = Some(run[r].report_end_time)
    /\ run' = [run EXCEPT ![r] = [IdleRun EXCEPT !.email = run[r].email]]
    /\ sched' = SchedAfterReturn(r)
    /\ UNCHANGED <<now, docs, img, reported, undisturbed, mock, ocr>>

\* step 5 when the store raises in _update_last_report_time: the failure is
\* swallowed and the stored time stays
run_finish_update_raises(r) ==
    /\ run[r].pc = "finish"
    /\ run' = [run EXCEPT ![r] = [IdleRun EXCEPT !.email = run[r].email]]
    /\ sched' = SchedAfterReturn(r)
    /\ undisturbed' = FALSE
    /\ UNCHANGED <<now, docs, settings, img, reported, mock, ocr>>

IsReportTime(t) ==
    \/ Hour(t) = morning_hour /\ Minute(t) = 0
    \/ Hour(t) = afternoon_hour /\ Minute(t) = 0

SleepToNextMinute(seen) ==
    LET sleep_time == 60 - Second(seen)
    IN SleepTicks(IF sleep_time > 5 THEN sleep_time ELSE 5)

\* scheduler_loop, from the top of the loop: at a report time the thread runs
\* the report itself; otherwise it sleeps to the next minute.
scheduler_check ==
    /\ sched.pc = "sleep" /\ now >= sched.wake
    /\ IF IsReportTime(now)
       THEN /\ sched' = [pc |-> "run", seen |-> now, wake |-> 0]
            /\ StartRun(SchedulerThread)
       ELSE /\ sched' = [pc |-> "sleep", seen |-> now, wake |-> now + SleepToNextMinute(now)]
            /\ UNCHANGED <<run, undisturbed>>
    /\ UNCHANGED <<now, docs, settings, img, reported, mock, ocr>>

\* scheduler_loop after time.sleep(60): the sleep at the end of the loop, from
\* the time read at the top
scheduler_after_sleep60 ==
    /\ sched.pc = "sleep60" /\ now >= sched.wake
    /\ sched' = [sched EXCEPT !.pc = "sleep", !.wake = now + SleepToNextMinute(sched.seen)]
    /\ UNCHANGED <<now, docs, settings, img, run, reported, undisturbed, mock, ocr>>

\* GET /run-report calling run_scheduled_report itself: the request returns
\* when a run without rows has come to its end
run_report_on_demand_in_request(r) ==
    /\ r \in Threads
    /\ ~InFlight(r)
    /\ run' = [run EXCEPT ![r] = [IdleRun EXCEPT !.email = "skipped"]]
    /\ settings' = Some(now)
    /\ UNCHANGED <<now, docs, img, sched, reported, undisturbed, mock, ocr>>

\* GET /run-report: a new thread is started on run_scheduled_report and the
\* request returns its JSON answer at once
run_report_on_demand(r) ==
    /\ r \in Threads
    /\ ~InFlight(r)
    /\ StartRun(r)
    /\ UNCHANGED <<now, docs, settings, img, sched, reported, mock, ocr>>

----------------------------------------------------------------------------
(* The store of the fallback: FirestoreMock of line_processor_final.py *)

HourTicks(hours) == (hours * 3600) \div TickSeconds

\* FirestoreMock.__init__: last_report_time = datetime.now() - timedelta(days=1)
NewMock == [last_report_time |-> 0 - DayTicks, query |-> Null, result |-> <<>>]

\* mock_payments of stream(), built at time t
mock_payments(t) ==
    <<[unit_id |-> "88/01", timestamp |-> t - HourTicks(3), status |-> "COMPLETED"],
      [unit_id |-> "88/02", timestamp |-> t - HourTicks(12), status |-> "COMPLETED"]>>

\* FirestoreMock.stream: the mock payments later than the mock's own
\* last_report_time, in the order of the list
stream(last_report_time, t) ==
    SelectSeq(mock_payments(t), LAMBDA p : p.timestamp > last_report_time)

\* the statuses and the times a query may name
QueryStatuses == {"COMPLETED", "PENDING_ADMIN_REVIEW"}
QueryTimes(t) == {t - DayTicks, t - HourTicks(12), t - HourTicks(3), t - 1, t}

\* collection(PAYMENTS_COLLECTION).where('status', '==', status)
\* .where('timestamp', '>', since).stream() on the mock: collection and where
\* return the mock itself and keep nothing of their arguments
mock_query(status, since) ==
    /\ mock' = [mock EXCEPT !.query = Some([status |-> status, since |-> since]),
                            !.result = stream(mock.last_report_time, now)]
    /\ UNCHANGED <<now, docs, settings, img, run, sched, reported, undisturbed, ocr>>

----------------------------------------------------------------------------
(* The OCR call: _image_to_text of line_processor_final.py *)

max_retries == 3
first_delay == 2

\* dict.get(key, default)
Get(d, key, default) == IF key \in DOMAIN d THEN d[key] ELSE default

\* the empty dict
EmptyDict == <<>>

\* what requests.post and raise_for_status raise: a transport error, a status
\* that is not 2xx
RequestExceptions == {"ConnectionError", "HTTPError"}

\* bodies of 2xx responses: text, empty text, a part without text, content
\* without parts, a candidate without content, no candidates key, an empty
\* candidates list, an empty parts list
ResponseText == [candidates |-> <<[content |-> [parts |-> <<[text |-> OcrAll]>>]]>>]
ResponseEmptyText == [candidates |-> <<[content |-> [parts |-> <<[text |-> <<>>]>>]]>>]
ResponseNoParts == [candidates |-> <<[content |-> [role |-> "model"]]>>]
ResponseNoContent == [candidates |-> <<[finishReason |-> "SAFETY"]>>]
ResponseNoCandidates == [promptFeedback |-> "BLOCKED"]
ResponseEmptyCandidates == [candidates |-> <<>>]
ResponseEmptyParts == [candidates |-> <<[content |-> [parts |-> <<>>]]>>]

Responses == {ResponseText, ResponseEmptyText, ResponseNoParts, ResponseNoContent,
              ResponseNoCandidates, ResponseEmptyCandidates, ResponseEmptyParts}

\* what one attempt can come to
PostOutcomes == [raises : RequestExceptions] \cup [json : Responses]

\* line 241: result.get('candidates', [{}])[0].get('content', {})
\*           .get('parts', [{}])[0].get('text', '');
\* [0] of an empty list raises IndexError
ResponseTextOf(result) ==
    IF Get(result, "candidates", <<EmptyDict>>) = <<>>
    THEN [raises |-> "IndexError"]
    ELSE IF Get(Get(Get(result, "candidates", <<EmptyDict>>)[1], "content", EmptyDict),
                "parts", <<EmptyDict>>) = <<>>
    THEN [raises |-> "IndexError"]
    ELSE [text |-> Get(Get(Get(Get(result, "candidates", <<EmptyDict>>)[1],
                               "content", EmptyDict),
                           "parts", <<EmptyDict>>)[1],
                       "text", <<>>)]

\* no call of _image_to_text made yet
NewCall ==
    [pc |-> "idle", i |-> 0, delay |-> first_delay, outcomes |-> <<>>, slept |-> <<>>,
     result |-> Null]

\* _image_to_text is entered: max_retries = 3, delay = 2, the loop begins
image_to_text_enter ==
    /\ ocr.pc = "idle"
    /\ ocr' = [NewCall EXCEPT !.pc = "post"]
    /\ UNCHANGED <<now, docs, settings, img, run, sched, reported, undisturbed, mock>>

\* one pass of the loop body up to a sleep: the request, and what the pass
\* makes of its outcome
image_to_text_attempt(outcome) ==
    /\ ocr.pc = "post"
    /\ ocr' =
         IF "raises" \in DOMAIN outcome
         THEN IF ocr.i < max_retries - 1
              THEN [ocr EXCEPT !.pc = "sleep", !.outcomes = Append(@, outcome)]
              ELSE [ocr EXCEPT !.pc = "returned", !.outcomes = Append(@, outcome),
                               !.result = Some(OcrFailed)]
         ELSE IF "raises" \in DOMAIN ResponseTextOf(outcome.json)
         THEN [ocr EXCEPT !.pc = "raised", !.outcomes = Append(@, outcome),
                          !.result = Some(ResponseTextOf(outcome.json).raises)]
         ELSE IF ResponseTextOf(outcome.json).text # <<>>
         THEN [ocr EXCEPT !.pc = "returned", !.outcomes = Append(@, outcome),
                          !.result = Some(ResponseTextOf(outcome.json).text)]
         ELSE IF ocr.i < max_retries - 1
         THEN [ocr EXCEPT !.i = @ + 1, !.outcomes = Append(@, outcome)]
         ELSE [ocr EXCEPT !.pc = "returned", !.outcomes = Append(@, outcome),
                          !.result = Some(OcrFailed)]
    /\ UNCHANGED <<now, docs, settings, img, run, sched, reported, undisturbed, mock>>

\* time.sleep(delay); delay *= 2; the next pass of the loop
image_to_text_sleep ==
    /\ ocr.pc = "sleep"
    /\ ocr' = [ocr EXCEPT !.pc = "post", !.i = @ + 1, !.delay = @ * 2,
                          !.slept = Append(@, ocr.delay)]
    /\ UNCHANGED <<now, docs, settings, img, run, sched, reported, undisturbed, mock>>

----------------------------------------------------------------------------
(* Payment conversation: telebot/extenso/main_bot.py *)

\* the position of the first comma of text, 0 when it has none
RECURSIVE FirstComma(_, _)
FirstComma(text, k) ==
    IF k > Len(text) THEN 0
    ELSE IF text[k] = "," THEN k
    ELSE FirstComma(text, k + 1)

\* [p.strip() for p in details_text.split(',', 1)]
SplitAt(text, k) ==
    IF k = 0 THEN <<Strip(text)>>
    ELSE <<Strip(SubSeq(text, 1, k - 1)), Strip(SubSeq(text, k + 1, Len(text)))>>

Parts(details_text) == SplitAt(details_text, FirstComma(details_text, 1))

\* the first two decimals of a fraction
Pad2(frac) == SubSeq(frac \o <<"0", "0">>, 1, 2)

\* int(round(amount_float * 100)) of a number given by its integer part and
\* its decimals
Satang(f) ==
    f.whole * 100 + DigitsValue(Pad2(f.frac))
        + (IF Len(f.frac) >= 3 /\ DigitValue(f.frac[3]) >= 5 THEN 1 ELSE 0)

SatangOf(float, negative) ==
    IF float = Null THEN Null
    ELSE Some(IF negative THEN 0 - Satang(float[1]) ELSE Satang(float[1]))

\* float(amount_str.replace(',', '')) in satang: a sign, digits and a point;
\* ValueError (None) for anything else
amount_stored(amount_str) ==
    IF amount_str # <<>> /\ amount_str[1] \in {"-", "+"}
    THEN SatangOf(ParseFloat(Remove(Tail(amount_str), ",")), amount_str[1] = "-")
    ELSE SatangOf(ParseFloat(Remove(amount_str, ",")), FALSE)

\* the try block of receive_payment_details: the amount to store, or None
\* when float() raises or the amount is not positive
ParseDetails(details_text) ==
    IF amount_stored(Parts(details_text)[1]) # Null
          /\ amount_stored(Parts(details_text)[1])[1] > 0
    THEN amount_stored(Parts(details_text)[1])
    ELSE Null

\* details a resident may type
DetailsTexts ==
    {<<"5", "0", "0", ".", "0", "0", ",", " ", "F", "e", "e">>, <<"1", "2", "0", "0">>, <<"0">>, <<"-", "5", ",", " ", "x">>, <<"0", ".", "0", "0", "4">>, <<"a", "b", "c">>, <<",">>}

ParsedDetails == [d \in DetailsTexts |-> ParseDetails(d)]

\* staff_commands.send_payment_notification(bot, payment_id, lang): the post
\* to the staff log channel, which may raise
send_payment_notification == {"sent", "raises"}

\* /payment: report_payment_start, for a registered resident; the handler
\* re-enters from every state
report_payment_start(u) ==
    /\ conv' = [conv EXCEPT ![u].state = "RECEIPT_UPLOAD",
                            ![u].unit = Some(u),
                            ![u].reply = "payment_start"]
    /\ UNCHANGED <<now, payments, residents, caller, staff_reply, notices, uploads, listing, chat, registered>>

\* receive_receipt_photo: the photo is saved under a name made of the unit,
\* the time and the user, which no other photo has
receive_receipt_photo(u) ==
    /\ conv[u].state = "RECEIPT_UPLOAD"
    /\ uploads < MaxUploads
    /\ uploads' = uploads + 1
    /\ conv' = [conv EXCEPT ![u].state = "DETAILS_ENTRY",
                            ![u].receipt_filename = Some(uploads + 1),
                            ![u].reply = "payment_details_prompt"]
    /\ UNCHANGED <<now, payments, residents, caller, staff_reply, notices, listing, chat, registered>>

\* receive_payment_details: invalid details are answered and the state stays;
\* valid ones are inserted, then the staff channel is notified, the resident
\* answered, user_data cleared and the conversation ended. A handler that
\* raises leaves the conversation in its state with its user_data.
receive_payment_details(u, details_text) ==
    /\ conv[u].state = "DETAILS_ENTRY"
    /\ IF ParsedDetails[details_text] = Null
       THEN /\ conv' = [conv EXCEPT ![u].reply = "payment_details_invalid"]
            /\ UNCHANGED payments
       ELSE /\ Len(payments) < MaxPayments
            /\ payments' = Append(payments,
                   NewPayment(conv[u].unit[1], ParsedDetails[details_text][1],
                              conv[u].receipt_filename, now))
            /\ \E notified \in send_payment_notification, replied \in BOOLEAN :
                  conv' = IF notified = "sent" /\ replied
                          THEN [conv EXCEPT ![u] = [IdleConv EXCEPT !.reply = "payment_success"]]
                          ELSE conv
    /\ UNCHANGED <<now, residents, caller, staff_reply, notices, uploads, listing, chat, registered>>

\* /cancel: cancel_conversation
cancel_conversation(u) ==
    /\ conv[u].state # "END"
    /\ conv' = [conv EXCEPT ![u] = [IdleConv EXCEPT !.reply = "conversation_cancelled"]]
    /\ UNCHANGED <<now, payments, residents, caller, staff_reply, notices, uploads, listing, chat, registered>>

----------------------------------------------------------------------------
(* Registration: Database.update_resident_registration *)

\* a unit no row of residents has
UnknownUnit == "88/99"

\* UPDATE residents SET telegram_id = NULL, telegram_name = NULL
\* WHERE telegram_id = ?
Deregistered(rs, telegram_id) ==
    [u \in DOMAIN rs |->
        IF rs[u].telegram_id = Some(telegram_id)
        THEN [rs[u] EXCEPT !.telegram_id = Null]
        ELSE rs[u]]

\* UPDATE residents SET telegram_id = ?, ... WHERE unit = ?
RegisteredTo(rs, unit, telegram_id) ==
    IF unit \in DOMAIN rs
    THEN [rs EXCEPT ![unit].telegram_id = Some(telegram_id)]
    ELSE rs

ResidentsAfterRegistrationKeepsOld(rs, unit, telegram_id) ==
    RegisteredTo(rs, unit, telegram_id)

\* the two UPDATEs of update_resident_registration, committed together
ResidentsAfterRegistration(rs, unit, telegram_id) ==
    RegisteredTo(Deregistered(rs, telegram_id), unit, telegram_id)

\* SELECT * FROM residents WHERE telegram_id = ?: the units of the rows found
UnitsOfTelegram(rs, telegram_id) ==
    {u \in DOMAIN rs : rs[u].telegram_id = Some(telegram_id)}

\* Database.update_resident_registration: returns cursor.rowcount > 0 of the
\* second UPDATE, which matches a row exactly when the unit has one; cleared
\* are the rows the first UPDATE changed
update_resident_registration(unit, telegram_id) ==
    /\ residents' = ResidentsAfterRegistration(residents, unit, telegram_id)
    /\ registered' = Some([unit |-> unit, telegram_id |-> telegram_id,
                           cleared |-> UnitsOfTelegram(residents, telegram_id),
                           result |-> unit \in DOMAIN residents])
    /\ UNCHANGED <<now, payments, caller, staff_reply, notices, conv, uploads, listing,
                   chat>>

----------------------------------------------------------------------------
(* The two conversations of main_bot.py as the Application dispatches them *)

\* str.upper()
Upper(ch) ==
    IF \E k \in 1..26 : LowerSeq[k] = ch
    THEN UpperSeq[CHOOSE k \in 1..26 : LowerSeq[k] = ch]
    ELSE ch

UpperText(text) == [k \in 1..Len(text) |-> Upper(text[k])]

\* the unit numbers as the user types them
TextOfUnit ==
    [u \in Units \cup {UnknownUnit} |->
        IF u = "88/01" THEN <<"8", "8", "/", "0", "1">>
        ELSE IF u = "88/02" THEN <<"8", "8", "/", "0", "2">>
        ELSE <<"8", "8", "/", "9", "9">>]

\* the user whose messages are followed: the resident registered to 88/02
ChatUser == "u2"

\* the PIN receive_pin accepts
ValidPin == <<"1", "2", "3", "4">>

\* the texts a user sends: a unit number, and 1234, which is the PIN and
\* reads as payment details of 1234 baht
ChatTexts == {TextOfUnit["88/01"], ValidPin}

\* the argument of /register, if any
RegisterArgs == {Null, Some(TextOfUnit["88/01"]), Some(TextOfUnit[UnknownUnit])}

\* db.get_resident_by_unit(unit): the units of the rows found
get_resident_by_unit(text) == {u \in DOMAIN residents : TextOfUnit[u] = text}

EmptyUserData == [unit |-> Null, receipt_filename |-> Null]

Talk(t, c) == chat[t].talks[c]

\* receive_unit, entered from register_start or in UNIT_ENTRY: the unit is
\* stored in user_data before the PIN prompt is sent; when the prompt raises
\* the conversation keeps its state
receive_unit(t, c, text) ==
    LET found == get_resident_by_unit(UpperText(text))
    IN /\ IF found = {}
          THEN chat' = [chat EXCEPT ![t].talks[c].registration = "UNIT_ENTRY",
                                    ![t].reply = "unit_not_found"]
          ELSE \E replied \in BOOLEAN :
                  chat' = [chat EXCEPT
                      ![t].user_data.unit = Some(CHOOSE u \in found : TRUE),
                      ![t].talks[c].registration = IF replied THEN "PIN_ENTRY" ELSE @,
                      ![t].reply = IF replied THEN "pin_prompt" ELSE "raises"]
       /\ UNCHANGED <<payments, residents, uploads, registered>>

\* receive_pin in PIN_ENTRY
receive_pin(t, c, text) ==
    LET unit == chat[t].user_data.unit
    IN IF unit = Null
       THEN /\ chat' = [chat EXCEPT ![t].talks[c].registration = "END",
                                    ![t].reply = "generic_error"]
            /\ UNCHANGED <<payments, residents, uploads, registered>>
       ELSE IF text # ValidPin
       THEN /\ chat' = [chat EXCEPT ![t].reply = "pin_invalid"]
            /\ UNCHANGED <<payments, residents, uploads, registered>>
       ELSE /\ residents' = ResidentsAfterRegistration(residents, unit[1], t)
            /\ registered' = Some([unit |-> unit[1], telegram_id |-> t,
                                   cleared |-> UnitsOfTelegram(residents, t),
                                   result |-> unit[1] \in DOMAIN residents])
            /\ \E replied \in BOOLEAN :
                  chat' = IF replied
                          THEN [chat EXCEPT ![t].user_data = EmptyUserData,
                                            ![t].talks[c].registration = "END",
                                            ![t].reply = "registration_success"]
                          ELSE [chat EXCEPT ![t].reply = "raises"]
            /\ UNCHANGED <<payments, uploads>>

\* receive_payment_details in DETAILS_ENTRY, on user_data as it is now: the
\* INSERT raises IntegrityError when unit or receipt_filename is None (both
\* columns are NOT NULL)
receive_details(t, c, text) ==
    LET unit == chat[t].user_data.unit
        receipt_filename == chat[t].user_data.receipt_filename
    IN IF ParseDetails(text) = Null
       THEN /\ chat' = [chat EXCEPT ![t].reply = "payment_details_invalid"]
            /\ UNCHANGED <<payments, residents, uploads, registered>>
       ELSE IF unit = Null \/ receipt_filename = Null
       THEN /\ chat' = [chat EXCEPT ![t].reply = "raises"]
            /\ UNCHANGED <<payments, residents, uploads, registered>>
       ELSE /\ Len(payments) < MaxPayments
            /\ payments' = Append(payments,
                   NewPayment(unit[1], ParseDetails(text)[1], receipt_filename, now))
            /\ \E notified \in send_payment_notification, replied \in BOOLEAN :
                  chat' = IF notified = "sent" /\ replied
                          THEN [chat EXCEPT ![t].user_data = EmptyUserData,
                                            ![t].talks[c].payment = "END",
                                            ![t].talks[c].started_for = Null,
                                            ![t].talks[c].photo_stored = FALSE,
                                            ![t].reply = "payment_success"]
                          ELSE [chat EXCEPT ![t].reply = "raises"]
            /\ UNCHANGED <<residents, uploads, registered>>

\* /register [unit]: the entry point of registration_handler, which allows
\* re-entry; no other handler takes the command
command_register(t, c, arg) ==
    /\ IF arg = Null
       THEN /\ chat' = [chat EXCEPT ![t].talks[c].registration = "UNIT_ENTRY",
                                    ![t].reply = "register_prompt"]
            /\ UNCHANGED <<payments, residents, uploads, registered>>
       ELSE receive_unit(t, c, arg[1])
    /\ UNCHANGED <<now, caller, staff_reply, notices, conv, listing>>

\* /payment: registration_handler has no handler for it in any state, so
\* the entry point of payment_handler takes it, in every state:
\* report_payment_start. started_for and photo_stored record, for the
\* properties only, the unit the user was registered to at this start and
\* whether this conversation has stored a photo since.
command_payment(t, c) ==
    /\ LET found == UnitsOfTelegram(residents, t)
       IN IF found = {}
          THEN chat' = [chat EXCEPT ![t].talks[c].payment = "END",
                                    ![t].talks[c].started_for = Null,
                                    ![t].talks[c].photo_stored = FALSE,
                                    ![t].reply = "not_registered"]
          ELSE \E replied \in BOOLEAN :
                  LET unit == CHOOSE u \in found : TRUE
                  IN chat' = IF replied
                             THEN [chat EXCEPT
                                      ![t].user_data.unit = Some(unit),
                                      ![t].talks[c].payment = "RECEIPT_UPLOAD",
                                      ![t].talks[c].started_for = Some(unit),
                                      ![t].talks[c].photo_stored = FALSE,
                                      ![t].reply = "payment_start"]
                             ELSE [chat EXCEPT ![t].user_data.unit = Some(unit),
                                               ![t].reply = "raises"]
    /\ UNCHANGED <<now, payments, residents, caller, staff_reply, notices, conv, uploads,
                   listing, registered>>

\* /cancel: the fallback of the first conversation handler that is in a
\* state, registration_handler before payment_handler: cancel_conversation
\* clears user_data and ends that conversation only
command_cancel(t, c) ==
    /\ Talk(t, c).registration # "END" \/ Talk(t, c).payment # "END"
    /\ \E replied \in BOOLEAN :
          chat' = IF ~replied THEN [chat EXCEPT ![t].reply = "raises"]
                  ELSE IF Talk(t, c).registration # "END"
                  THEN [chat EXCEPT ![t].user_data = EmptyUserData,
                                    ![t].talks[c].registration = "END",
                                    ![t].reply = "conversation_cancelled"]
                  ELSE [chat EXCEPT ![t].user_data = EmptyUserData,
                                    ![t].talks[c].payment = "END",
                                    ![t].talks[c].started_for = Null,
                                    ![t].talks[c].photo_stored = FALSE,
                                    ![t].reply = "conversation_cancelled"]
    /\ UNCHANGED <<now, payments, residents, caller, staff_reply, notices, conv, uploads,
                   listing, registered>>

\* a photo: registration_handler's states take text only, so the photo goes
\* to payment_handler in RECEIPT_UPLOAD: receive_receipt_photo, which reads
\* user_data['unit'] (KeyError when it is gone), downloads the file and
\* stores its name
message_photo(t, c) ==
    /\ Talk(t, c).payment = "RECEIPT_UPLOAD"
    /\ IF chat[t].user_data.unit = Null
       THEN /\ chat' = [chat EXCEPT ![t].reply = "raises"]
            /\ UNCHANGED uploads
       ELSE \/ /\ chat' = [chat EXCEPT ![t].reply = "raises"]
               /\ UNCHANGED uploads
            \/ /\ uploads < MaxUploads
               /\ uploads' = uploads + 1
               /\ chat' = [chat EXCEPT
                     ![t].user_data.receipt_filename = Some(uploads + 1),
                     ![t].talks[c].payment = "DETAILS_ENTRY",
                     ![t].talks[c].photo_stored = TRUE,
                     ![t].reply = "payment_details_prompt"]
    /\ UNCHANGED <<now, payments, residents, caller, staff_reply, notices, conv, listing,
                   registered>>

\* a text that is no command: registration_handler, added first, takes it
\* in UNIT_ENTRY and PIN_ENTRY; otherwise payment_handler takes it in
\* DETAILS_ENTRY; otherwise it goes to handle_resident_message
message_text(t, c, text) ==
    /\ IF Talk(t, c).registration = "UNIT_ENTRY" THEN receive_unit(t, c, text)
       ELSE IF Talk(t, c).registration = "PIN_ENTRY" THEN receive_pin(t, c, text)
       ELSE IF Talk(t, c).payment = "DETAILS_ENTRY" THEN receive_details(t, c, text)
       ELSE /\ chat' = [chat EXCEPT ![t].reply =
                          IF UnitsOfTelegram(residents, t) # {}
                          THEN "support_received" ELSE "not_registered"]
            /\ UNCHANGED <<payments, residents, uploads, registered>>
    /\ UNCHANGED <<now, caller, staff_reply, notices, conv, listing>>

----------------------------------------------------------------------------
(* The scheduler thread through a day: start_daily_email_scheduler *)

\* the ticks from the morning report time to the afternoon one
BetweenReports == HourTicks(afternoon_hour - morning_hour)

\* the clock is followed around the two report times: up to MaxTime in the
\* morning and for as many ticks from BetweenReports on in the afternoon
LastTick == BetweenReports + MaxTime

MinuteTicks == 60 \div TickSeconds

\* the scheduler thread has slept its time and is to go on
SchedulerDue == sched.pc \in {"sleep", "sleep60"} /\ now >= sched.wake

\* datetime.now() around a report time, with a scheduler thread that wakes
\* when its time.sleep is over
clock_tick_on_time ==
    /\ ~SchedulerDue
    /\ now < MaxTime \/ (now >= BetweenReports /\ now < LastTick)
    /\ now' = now + 1
    /\ UNCHANGED lineVars

\* scheduler_loop from the minute after the morning report to the afternoon:
\* the thread wakes once a minute, finds no report time and sleeps to the
\* next minute; at the last tick before the afternoon report time it has
\* read the clock at the start of that minute and sleeps to the end of it
scheduler_idles_until_afternoon ==
    /\ sched.pc = "sleep"
    /\ now = MaxTime
    /\ now' = BetweenReports
    /\ sched' = [pc |-> "sleep", seen |-> BetweenReports - 1,
                 wake |-> BetweenReports - 1 + SleepToNextMinute(BetweenReports - 1)]
    /\ UNCHANGED <<docs, settings, img, run, reported, undisturbed, mock, ocr>>

\* a call of run_scheduled_report made by the scheduler thread that does not
\* return for hours: the store's read, query and update and smtplib.SMTP are
\* called without a timeout, and the thread waits in them
scheduled_run_blocks_until_afternoon ==
    /\ sched.pc = "run"
    /\ InFlight(SchedulerThread)
    /\ now <= MaxTime
    /\ now' = now + BetweenReports
    /\ UNCHANGED lineVars

----------------------------------------------------------------------------
(* Specifications *)

InitLine ==
    /\ docs = <<>>
    /\ settings = Null
    /\ img = Null
    /\ run = [r \in Runners |-> IdleRun]
    /\ sched = [pc |-> "sleep", seen |-> 0, wake |-> 0]
    /\ reported = <<>>
    /\ undisturbed = TRUE
    /\ mock = NewMock
    /\ ocr = NewCall

Init == InitLedger /\ InitLine

SpecLedger == Init /\ [][NextLedger]_vars

SpecReview == Init /\ [][NextReview]_vars

\* The staff commands: payments come in, one operator lists the pending ones
\* and resolves them
NextPending ==
    \/ Tick /\ UNCHANGED ledgerVars /\ UNCHANGED lineVars
    \/ (\E u \in Units : add_payment(u, 50000, SeedReceipt)) /\ UNCHANGED lineVars
    \/ (\E a \in {"approve", "reject"}, id \in 1..MaxPayments :
            handle_payment_callback("opA", a, id)) /\ UNCHANGED lineVars
    \/ (\E u \in Users : list_pending_payments(u)) /\ UNCHANGED lineVars

SpecPending == Init /\ [][NextPending]_vars

\* The staff commands as users of either kind call them: the buttons of a
\* listed payment are pressed by an operator, and a user who is no operator
\* sends /pending or presses a button
NextGate ==
    \/ Tick /\ UNCHANGED ledgerVars /\ UNCHANGED lineVars
    \/ (\E u \in Units : add_payment(u, 50000, SeedReceipt)) /\ UNCHANGED lineVars
    \/ (\E a \in {"approve", "reject", "receipt"}, id \in 1..MaxPayments :
            handle_payment_callback("opA", a, id)) /\ UNCHANGED lineVars
    \/ (\E u \in Users : list_pending_payments(u)) /\ UNCHANGED lineVars
    \/ (\E u \in Users : require_operator_wrapper(u)) /\ UNCHANGED lineVars

SpecGate == Init /\ [][NextGate]_vars

\* The payment conversation of the residents with the bot
NextBot ==
    \/ Tick /\ UNCHANGED ledgerVars /\ UNCHANGED lineVars
    \/ (\E u \in Units : report_payment_start(u)) /\ UNCHANGED lineVars
    \/ (\E u \in Units : receive_receipt_photo(u)) /\ UNCHANGED lineVars
    \/ (\E u \in Units, d \in DetailsTexts : receive_payment_details(u, d))
           /\ UNCHANGED lineVars
    \/ (\E u \in Units : cancel_conversation(u)) /\ UNCHANGED lineVars

SpecBot == Init /\ [][NextBot]_vars

\* The image handler on the sample captions and OCR texts.
NextExtract ==
    \/ (\E caption_text \in Captions, ocr_text \in OcrTexts :
            handle_image_message_build(caption_text, ocr_text)) /\ UNCHANGED ledgerVars
    \/ handle_image_message_save /\ UNCHANGED ledgerVars

SpecExtract == Init /\ [][NextExtract]_vars

\* The report runs next to the image handler and the admin.
NextReport ==
    \/ Tick /\ UNCHANGED ledgerVars /\ UNCHANGED lineVars
    \/ handle_image_message_build(CaptionAll, OcrAll) /\ UNCHANGED ledgerVars
    \/ handle_image_message_save /\ UNCHANGED ledgerVars
    \/ (\E d \in 1..MaxDocs : admin_marks_completed(d)) /\ UNCHANGED ledgerVars
    \/ scheduler_check /\ UNCHANGED ledgerVars
    \/ scheduler_after_sleep60 /\ UNCHANGED ledgerVars
    \/ (\E r \in Threads : run_report_on_demand(r)) /\ UNCHANGED ledgerVars
    \/ (\E r \in Runners : run_get_last_report_time(r)) /\ UNCHANGED ledgerVars
    \/ (\E r \in Runners : run_get_last_report_time_raises(r)) /\ UNCHANGED ledgerVars
    \/ (\E r \in Runners : run_capture_end_time(r)) /\ UNCHANGED ledgerVars
    \/ (\E r \in Runners : run_query_rows(r)) /\ UNCHANGED ledgerVars
    \/ (\E r \in Runners : run_query_raises(r)) /\ UNCHANGED ledgerVars
    \/ (\E r \in Runners : run_send_email(r)) /\ UNCHANGED ledgerVars
    \/ (\E r \in Runners : run_finish(r)) /\ UNCHANGED ledgerVars
    \/ (\E r \in Runners : run_finish_update_raises(r)) /\ UNCHANGED ledgerVars

SpecReport == Init /\ [][NextReport]_vars

\* Staff verify payments of the ledger while report runs are made on demand
NextVerifiedReport ==
    \/ Tick /\ UNCHANGED ledgerVars /\ UNCHANGED lineVars
    \/ add_payment("88/02", 100050, SeedReceipt) /\ UNCHANGED lineVars
    \/ (\E id \in 1..MaxPayments :
            handle_payment_callback("opA", "approve", id)) /\ UNCHANGED lineVars
    \/ (\E r \in Threads : run_report_on_demand(r)) /\ UNCHANGED ledgerVars
    \/ (\E r \in Threads : run_get_last_report_time(r)) /\ UNCHANGED ledgerVars
    \/ (\E r \in Threads : run_capture_end_time(r)) /\ UNCHANGED ledgerVars
    \/ (\E r \in Threads : run_query_rows(r)) /\ UNCHANGED ledgerVars
    \/ (\E r \in Threads : run_send_email(r)) /\ UNCHANGED ledgerVars
    \/ (\E r \in Threads : run_finish(r)) /\ UNCHANGED ledgerVars

SpecVerifiedReport == Init /\ [][NextVerifiedReport]_vars

\* The store's registration called directly, for units with and without a
\* row, next to payments and their approval
NextRegistration ==
    \/ Tick /\ UNCHANGED ledgerVars /\ UNCHANGED lineVars
    \/ (\E unit \in Units \cup {UnknownUnit}, t \in TelegramIds :
            update_resident_registration(unit, t)) /\ UNCHANGED lineVars
    \/ (\E u \in Units : add_payment(u, 50000, SeedReceipt)) /\ UNCHANGED lineVars
    \/ (\E id \in 1..MaxPayments :
            handle_payment_callback("opA", "approve", id)) /\ UNCHANGED lineVars

SpecRegistration == Init /\ [][NextRegistration]_vars

\* The scheduler thread alone through the morning and the afternoon report
\* time, its sleeps ending on time
NextScheduler ==
    \/ clock_tick_on_time /\ UNCHANGED ledgerVars
    \/ scheduler_idles_until_afternoon /\ UNCHANGED ledgerVars
    \/ scheduled_run_blocks_until_afternoon /\ UNCHANGED ledgerVars
    \/ handle_image_message_build(CaptionAll, OcrAll) /\ UNCHANGED ledgerVars
    \/ handle_image_message_save /\ UNCHANGED ledgerVars
    \/ scheduler_check /\ UNCHANGED ledgerVars
    \/ scheduler_after_sleep60 /\ UNCHANGED ledgerVars
    \/ run_get_last_report_time(SchedulerThread) /\ UNCHANGED ledgerVars
    \/ run_capture_end_time(SchedulerThread) /\ UNCHANGED ledgerVars
    \/ run_query_rows(SchedulerThread) /\ UNCHANGED ledgerVars
    \/ run_send_email(SchedulerThread) /\ UNCHANGED ledgerVars
    \/ run_finish(SchedulerThread) /\ UNCHANGED ledgerVars

SpecScheduler == Init /\ [][NextScheduler]_vars

\* One user's commands, photos and texts in two chats
NextChat ==
    \/ (\E c \in Chats, arg \in RegisterArgs : command_register(ChatUser, c, arg))
           /\ UNCHANGED lineVars
    \/ (\E c \in Chats : command_payment(ChatUser, c)) /\ UNCHANGED lineVars
    \/ (\E c \in Chats : command_cancel(ChatUser, c)) /\ UNCHANGED lineVars
    \/ (\E c \in Chats : message_photo(ChatUser, c)) /\ UNCHANGED lineVars
    \/ (\E c \in Chats, text \in ChatTexts : message_text(ChatUser, c, text))
           /\ UNCHANGED lineVars

SpecChat == Init /\ [][NextChat]_vars

\* The ledger's operations next to the receipts of the LINE handler and
\* report runs made on demand
NextFrame ==
    \/ add_payment("88/02", 50000, SeedReceipt) /\ UNCHANGED lineVars
    \/ (\E u \in Users : list_pending_payments(u)) /\ UNCHANGED lineVars
    \/ (\E a \in {"approve", "reject", "receipt"}, id \in 1..MaxPayments :
            handle_payment_callback("opA", a, id)) /\ UNCHANGED lineVars
    \/ (\E unit \in Units : update_resident_registration(unit, "u1"))
           /\ UNCHANGED lineVars
    \/ handle_image_message_build(CaptionAll, OcrAll) /\ UNCHANGED ledgerVars
    \/ handle_image_message_save /\ UNCHANGED ledgerVars
    \/ (\E r \in Threads : run_report_on_demand(r)) /\ UNCHANGED ledgerVars
    \/ (\E r \in Threads : run_get_last_report_time(r)) /\ UNCHANGED ledgerVars
    \/ (\E r \in Threads : run_capture_end_time(r)) /\ UNCHANGED ledgerVars
    \/ (\E r \in Threads : run_query_rows(r)) /\ UNCHANGED ledgerVars
    \/ (\E r \in Threads : run_send_email(r)) /\ UNCHANGED ledgerVars
    \/ (\E r \in Threads : run_finish(r)) /\ UNCHANGED ledgerVars

SpecFrame == Init /\ [][NextFrame]_vars

\* The handler and queries on the store of the fallback
NextMock ==
    \/ Tick /\ UNCHANGED ledgerVars /\ UNCHANGED lineVars
    \/ handle_image_message_build(CaptionAll, OcrAll) /\ UNCHANGED ledgerVars
    \/ handle_image_message_save /\ UNCHANGED ledgerVars
    \/ (\E d \in 1..MaxDocs : admin_marks_completed(d)) /\ UNCHANGED ledgerVars
    \/ (\E status \in QueryStatuses, since \in QueryTimes(now) :
            mock_query(status, since)) /\ UNCHANGED ledgerVars

SpecMock == Init /\ [][NextMock]_vars

\* One call of _image_to_text against every outcome of each request.
NextGateway ==
    \/ image_to_text_enter /\ UNCHANGED ledgerVars
    \/ (\E outcome \in PostOutcomes : image_to_text_attempt(outcome)) /\ UNCHANGED ledgerVars
    \/ image_to_text_sleep /\ UNCHANGED ledgerVars

SpecGateway == Init /\ [][NextGateway]_vars

\* Report runs keep occurring and the store does not fail for ever: a started
\* run takes each of its steps, the endpoint keeps being called, and a thread
\* that reads, queries or updates the store again and again is answered again
\* and again.
FairReport ==
    /\ \A r \in Runners :
          /\ SF_vars(run_get_last_report_time(r) /\ UNCHANGED ledgerVars)
          /\ WF_vars(run_capture_end_time(r) /\ UNCHANGED ledgerVars)
          /\ SF_vars(run_query_rows(r) /\ UNCHANGED ledgerVars)
          /\ WF_vars(run_send_email(r) /\ UNCHANGED ledgerVars)
          /\ SF_vars(run_finish(r) /\ UNCHANGED ledgerVars)
    /\ \A r \in Threads : WF_vars(run_report_on_demand(r) /\ UNCHANGED ledgerVars)

SpecReportFair == Init /\ [][NextReport]_vars /\ FairReport

----------------------------------------------------------------------------
(* Properties of the LINE processor *)

\* the records created so far: the saved ones and the one being saved
Records == {docs[d] : d \in DOMAIN docs} \cup (IF img # Null THEN {img[1]} ELSE {})

\* the text holds a unit of the valid set as a token of its own: the digits of
\* the unit are not part of a longer number
ContainsUnitToken(text) ==
    \E i \in 1..Len(text), n \in {Len(u) : u \in valid_units} :
        /\ i + n - 1 <= Len(text)
        /\ SubSeq(text, i, i + n - 1) \in valid_units
        /\ (i = 1 \/ text[i - 1] \notin Digits)
        /\ (i + n > Len(text) \/ text[i + n] \notin Digits)

\* C5: a submission whose caption holds a unit of the valid set and a fee
\* month, and whose OCR text gave an amount and a transaction reference, is
\* created with status COMPLETED.
C5_AllFieldsValidUnitCompleted ==
    \A r \in Records :
        (/\ ContainsUnitToken(r.source_text)
         /\ r.fee_month # NotAvailable
         /\ r.amount # Null
         /\ r.transaction_id # Null) => r.status = "COMPLETED"

\* C6: a submission whose unit is not of the valid set, or whose fee month,
\* amount or transaction reference is missing, is created under review and not
\* COMPLETED, whatever its other fields are.
C6_MissingFieldForcesReview ==
    \A r \in Records :
        (\/ r.unit_id \notin valid_units
         \/ r.fee_month = NotAvailable
         \/ r.amount = Null
         \/ r.transaction_id = Null) => r.status = "PENDING_ADMIN_REVIEW"

\* a saved record that has a unit token and a fee month in its caption and a
\* transaction reference, lacks the amount, and is under review
C6_Witness ==
    \E d \in DOMAIN docs :
        /\ ContainsUnitToken(docs[d].source_text)
        /\ docs[d].fee_month # NotAvailable
        /\ docs[d].transaction_id # Null
        /\ docs[d].amount = Null
        /\ docs[d].status = "PENDING_ADMIN_REVIEW"

C8_CompletedEventuallyReported ==
    \A d \in 1..MaxDocs :
        (d \in DOMAIN docs /\ docs[d].status = "COMPLETED")
            ~> (d \in DOMAIN docs /\ reported[d] >= 1)

BetweenReadAndAdvance(r) == run[r].pc \in {"capture", "query", "email", "finish"}

\* C10: while a report run is between its read of the stored time and its
\* update of it, no other run is in flight.
C10_AtMostOneRunInFlight ==
    \A r, q \in Runners :
        (r # q /\ BetweenReadAndAdvance(r)) => ~InFlight(q)

\* two times of the clock in the same minute
SameMinute(t1, t2) == Seconds(t1) \div 60 = Seconds(t2) \div 60

\* C11: no on-demand execution of the report starts in the clock minute in
\* which the scheduler triggered its execution: triggers of one minute make
\* one execution.
C11_OneExecutionPerMinute ==
    [][\A r \in Threads :
          (run[r].pc = "idle" /\ run'[r].pc = "read") =>
              ~(sched.pc \in {"run", "sleep60"} /\ SameMinute(sched.seen, now))]_vars


VerifiedAmount(u) == SumAmounts(payments, RowsOf(u, "verified"))

\* C13: the step that takes a pending payment to verified adds the payment's
\* amount to the balance of the payment's unit and sets that unit's
\* last_payment_date, in that same step, and changes no other resident; so in
\* no state is a payment verified with its amount missing from the balance.
C13_VerifyCreditsInSameStep ==
    /\ [][\A id \in DOMAIN payments :
             (payments[id].status = "pending" /\ payments'[id].status = "verified") =>
                 /\ residents'[payments[id].unit].current_balance =
                        residents[payments[id].unit].current_balance + payments[id].amount
                 /\ residents'[payments[id].unit].last_payment_date = Some(now)
                 /\ \A v \in Units \ {payments[id].unit} : residents'[v] = residents[v]]_vars
    /\ [](\A u \in Units :
             /\ residents[u].current_balance >= SeedBalance(u) + VerifiedAmount(u)
             /\ RowsOf(u, "verified") # {} => residents[u].last_payment_date # Null)

\* one payment has been verified, once: its unit holds the credit and the date,
\* the other unit is as seeded
C13_Witness ==
    \E id \in DOMAIN payments :
        /\ payments[id].status = "verified"
        /\ residents[payments[id].unit].current_balance =
               SeedBalance(payments[id].unit) + payments[id].amount
        /\ residents[payments[id].unit].last_payment_date # Null
        /\ \A v \in Units \ {payments[id].unit} : residents[v] = SeedResidents[v]

\* the stored record is one the handler approves by itself: it is COMPLETED,
\* or its caption and OCR text carry every field with a unit of the valid set
AutoApproved(r) ==
    \/ r.status = "COMPLETED"
    \/ /\ ContainsUnitToken(r.source_text)
       /\ r.fee_month # NotAvailable
       /\ r.amount # Null
       /\ r.transaction_id # Null

ResubmissionPrompt == "payment_rejected_resident"

\* C15: the step in which staff rejects a pending payment makes its status
\* rejected, leaves every resident's balance as it was, and sends the
\* payment's resident the text that asks to report the payment again.
C15_RejectKeepsBalancesAndPrompts ==
    [][\A u \in Operators, id \in DOMAIN payments :
          (payments[id].status = "pending" /\ handle_payment_callback(u, "reject", id)) =>
              /\ payments'[id].status = "rejected"
              /\ \A v \in Units :
                    residents'[v].current_balance = residents[v].current_balance
              /\ Len(notices') = Len(notices) + 1
              /\ notices'[Len(notices')].unit = payments[id].unit
              /\ notices'[Len(notices')].text = ResubmissionPrompt]_vars

\* the rows stored for the receipt photo saved under name f
RowsOfReceipt(f) ==
    {id \in DOMAIN payments : payments[id].receipt_filename = Some(f)}

\* C16: no receipt photo has two or more payments stored for it, whatever
\* failed after the insert and whatever the resident sent again.
C16_OneRowPerReceipt ==
    \A f \in 1..uploads : Cardinality(RowsOfReceipt(f)) <= 1

\* C17: a call of update_payment_status with an id that has no row returns
\* False, and the step in which it does changes no payment and no resident.
C17_UnknownIdChangesNothing ==
    [][\A c \in Callers :
          (caller[c].pc = "idle" /\ caller'[c].pc # "idle"
              /\ caller'[c].id \notin DOMAIN payments) =>
                 /\ caller'[c].pc = "done"
                 /\ caller'[c].result = "False"
                 /\ payments' = payments
                 /\ residents' = residents]_vars

\* a call with an id that has no row has returned False while a payment is
\* stored under another id
C17_Witness ==
    \E c \in Callers :
        /\ caller[c].pc = "done"
        /\ caller[c].result = "False"
        /\ caller[c].id \notin DOMAIN payments
        /\ payments # <<>>

\* the amount of a record, when it has one, is more than zero
PositiveAmount(amount) ==
    amount # Null => (amount[1].whole > 0 \/ amount[1].frac # <<>>)

C19_ListIsPendingOldestFirst ==
    [][\A u \in Operators :
          list_pending_payments(u) =>
              /\ {listing'[1][i] : i \in 1..Len(listing'[1])} = PendingIds
              /\ Len(listing'[1]) = Cardinality(PendingIds)
              /\ \A i, j \in 1..Len(listing'[1]) :
                    i < j => payments[listing'[1][i]].created_at
                                 <= payments[listing'[1][j]].created_at]_vars

\* the list shown held the second payment alone, the first one having been
\* resolved before the call
C19_Witness ==
    /\ Len(payments) = 2
    /\ payments[1].status # "pending"
    /\ listing = Some(<<2>>)

\* C20: a query for a status and a time returns rows of that status later
\* than that time only, the earlier before the later, and among them every
\* stored record of that status later than that time.
C20_QuerySinceExactAscending ==
    [][\A status \in QueryStatuses, since \in QueryTimes(now) :
          mock_query(status, since) =>
              /\ \A i \in 1..Len(mock'.result) :
                    /\ mock'.result[i].status = status
                    /\ mock'.result[i].timestamp > since
              /\ \A i, j \in 1..Len(mock'.result) :
                    i < j => mock'.result[i].timestamp <= mock'.result[j].timestamp
              /\ \A d \in DOMAIN docs :
                    (docs[d].status = status /\ docs[d].timestamp > since) =>
                        \E i \in 1..Len(mock'.result) :
                            mock'.result[i].timestamp = docs[d].timestamp]_vars

\* the payments staff verified that were created after time t
VerifiedSince(t) ==
    {id \in DOMAIN payments :
        payments[id].status = "verified" /\ payments[id].created_at > t}

\* C21: the rows of a report run hold a row for every submission that staff
\* verified and that was created after the run's report_start_time, and no
\* row of a record that is neither COMPLETED nor verified.
C21_RowsHoldVerifiedAndCompleted ==
    \A r \in Runners :
        run[r].pc \in {"email", "finish"} =>
            /\ \A d \in run[r].rows : docs[d].status \in {"COMPLETED", "VERIFIED"}
            /\ \A id \in VerifiedSince(run[r].report_start_time) :
                  payments[id].verification_date[1] < run[r].report_end_time =>
                      \E d \in run[r].rows : docs[d].timestamp = payments[id].created_at

C23_ReturnsTextOrFailure ==
    /\ ocr.pc # "raised"
    /\ ocr.pc = "returned" => ocr.result # Null /\ ocr.result[1] # <<>>

\* C24: _image_to_text makes at most 3 requests; every failed attempt but the
\* last is followed by a wait before the next request, and each wait is twice
\* the one before.
C24_ThreeAttemptsWithDoublingWaits ==
    /\ Len(ocr.outcomes) <= max_retries
    /\ ocr.pc = "post" => Len(ocr.slept) = Len(ocr.outcomes)
    /\ \A k \in 2..Len(ocr.slept) : ocr.slept[k] = 2 * ocr.slept[k - 1]

\* C25: when handle_image_message has built a record from an OCR text that
\* gave no amount or no reference (OCR_FAILED among them), the step that ends
\* the handler stores that record, and stores it as PENDING_ADMIN_REVIEW.
C25_FailedExtractionIsStored ==
    [][(img # Null /\ img' = Null /\ img[1].ocr_status = "FAILED") =>
          /\ Len(docs') = Len(docs) + 1
          /\ docs'[Len(docs')] = img[1]
          /\ docs'[Len(docs')].status = "PENDING_ADMIN_REVIEW"]_vars

\* C26: a staff command called by a user who is no operator answers with the
\* text that operator access is required, and the step changes no payment, no
\* resident and sends no notification.
C26_RefusalIsToldAndChangesNothing ==
    [][\A u \in Users :
          require_operator_wrapper(u) =>
              /\ get_message(staff_reply') = "staff_access_required"
              /\ payments' = payments
              /\ residents' = residents
              /\ notices' = notices]_vars

\* C27: approve or reject pressed for a payment that is already verified or
\* rejected shows the staff user the text that names the status the payment
\* has, and the step changes no payment, no resident and sends no notification.
C27_SecondDecisionTellsStatus ==
    [][\A u \in Operators, a \in {"approve", "reject"}, id \in DOMAIN payments :
          (payments[id].status \in {"verified", "rejected"}
              /\ handle_payment_callback(u, a, id)) =>
                 /\ get_message(staff_reply') = "staff_payment_already_processed"
                 /\ payments' = payments
                 /\ residents' = residents
                 /\ notices' = notices]_vars

\* C28: the step that resolves a pending payment sends one message to the
\* resident of the payment's unit, the payment has its new status in the state
\* the message is sent in, and for an approval the message is a text of the
\* dictionary given the balance the resident has after the credit.
C28_DecisionSendsOneNoticeWithNewBalance ==
    [][\A u \in Operators, a \in {"approve", "reject"}, id \in DOMAIN payments :
          (payments[id].status = "pending" /\ handle_payment_callback(u, a, id)) =>
              /\ Len(notices') = Len(notices) + 1
              /\ notices'[Len(notices')].payment = id
              /\ notices'[Len(notices')].unit = payments[id].unit
              /\ payments'[id].status = IF a = "approve" THEN "verified" ELSE "rejected"
              /\ a = "approve" =>
                    /\ notices'[Len(notices')].text # KeyNotFound
                    /\ notices'[Len(notices')].new_balance =
                           residents'[payments[id].unit].current_balance
                    /\ residents'[payments[id].unit].current_balance =
                           residents[payments[id].unit].current_balance + payments[id].amount]_vars

\* C29: receipt pressed by an operator for a stored payment sends the receipt
\* photo, or shows a text of the dictionary that says the receipt could not be
\* sent; the step changes no payment and no resident.
C29_ReceiptIsSentOrToldMissing ==
    [][\A u \in Operators, id \in DOMAIN payments :
          handle_payment_callback(u, "receipt", id) =>
              /\ \/ staff_reply' = "receipt_caption"
                 \/ /\ staff_reply' = "receipt_send_error"
                    /\ get_message(staff_reply') # KeyNotFound
              /\ payments' = payments
              /\ residents' = residents]_vars

\* C30: the step in which GET /run-report answers has started a thread on
\* run_scheduled_report and done nothing of the run: the thread stands at the
\* first statement, the stored time and every other run are as they were,
\* also while another run is in progress; and a started run goes on from the
\* first statement to the next, it is not dropped.
C30_TriggerAnswersWithRunStarted ==
    [][\A r \in Threads :
          /\ (run_report_on_demand(r) \/ (run[r].pc = "idle" /\ run'[r].pc # "idle")) =>
                /\ run'[r] = [IdleRun EXCEPT !.pc = "read"]
                /\ settings' = settings
                /\ reported' = reported
                /\ \A q \in Runners \ {r} : run'[q] = run[q]
          /\ run[r].pc = "read" => run'[r].pc \in {"read", "capture"}]_vars

\* the endpoint has answered while the scheduler's run was in progress, and
\* the thread it started has not yet taken a step
C30_Witness ==
    \E r \in Threads : run[r].pc = "read" /\ InFlight(SchedulerThread)

\* C31: the stored time changes only in the step in which a run makes its one
\* update and returns, and then to that run's report_end_time: a run writes it
\* once or not at all; a run whose query raises returns with the stored time
\* as it was and without an email.
C31_RunWritesStoredTimeOnceOrNever ==
    [][/\ settings' # settings =>
             \E r \in Runners : /\ run[r].pc = "finish"
                                /\ run'[r].pc = "idle"
                                /\ settings' = Some(run[r].report_end_time)
       /\ \A r \in Runners :
             (run_query_raises(r) \/ (run[r].pc = "query" /\ run'[r].pc = "idle")) =>
                 /\ settings' = settings
                 /\ run[r].email = "none"
                 /\ run'[r].email = "none"]_vars

\* the scheduler's run has returned after its query raised: no email, and the
\* stored time still missing
C31_Witness ==
    /\ sched.pc = "sleep60"
    /\ run[SchedulerThread].pc = "idle"
    /\ run[SchedulerThread].email = "none"
    /\ settings = Null

\* the record handle_image_message builds now for a caption and the OCR text
\* of the receipt of Somsak Wong
ScenarioRecord(caption_text) ==
    [SampleFields[caption_text, OcrAll] EXCEPT !.timestamp = now]

\* C32: the record built for the caption "Unit 88/07, 2025-11, owner@x.com"
\* and the OCR text "Total 1,500.00 Baht / Ref No: ABC123 / From: Somsak Wong"
\* has unit 88/07, fee month 2025-11, amount 150000, reference ABC123, payer
\* Somsak Wong and status COMPLETED; the record built for a caption without a
\* unit and the same OCR text has no unit and is under review.
C32_ScenarioFieldsAndStatus ==
    img # Null =>
        /\ img[1] = ScenarioRecord(CaptionAll) =>
              /\ img[1].unit_id = <<"8", "8", "/", "0", "7">>
              /\ img[1].fee_month = <<"2", "0", "2", "5", "-", "1", "1">>
              /\ img[1].amount = Some([whole |-> 150000, frac |-> <<>>])
              /\ img[1].transaction_id = Some(<<"A", "B", "C", "1", "2", "3">>)
              /\ img[1].payer_name = Some(<<"S", "o", "m", "s", "a", "k", " ", "W", "o", "n", "g">>)
              /\ img[1].status = "COMPLETED"
        /\ img[1] = ScenarioRecord(CaptionEmpty) =>
              /\ img[1].unit_id = NotAvailable
              /\ img[1].status = "PENDING_ADMIN_REVIEW"

\* C38: after every call of update_resident_registration each Telegram id is
\* on at most one unit's row; the call takes the id off the row that had it
\* before putting it on the target's, and it returns True only if the target
\* unit has a row, which then carries the id.
C38_TelegramIdOnAtMostOneUnit ==
    [][/\ \A id \in TelegramIds : Cardinality(UnitsOfTelegram(residents', id)) <= 1
       /\ \A unit \in Units \cup {UnknownUnit}, t \in TelegramIds :
             update_resident_registration(unit, t) =>
                 /\ \A u \in UnitsOfTelegram(residents, t) \ {unit} :
                        residents'[u].telegram_id = Null
                 /\ registered'[1].result =>
                        /\ unit \in Units
                        /\ UnitsOfTelegram(residents', t) = {unit}]_vars

\* a user registered to 88/01 has registered to 88/02
C38_Witness ==
    /\ registered # Null
    /\ registered[1].unit = "88/02"
    /\ registered[1].cleared = {"88/01"}
    /\ registered[1].result
    /\ UnitsOfTelegram(residents, registered[1].telegram_id) = {"88/02"}

\* C35: in every reachable state a payment row has verified_by and
\* verification_date set exactly when its status is verified or rejected; a
\* pending row has neither.
C35_ResolverAndTimeSetIffResolved ==
    \A id \in DOMAIN payments :
        /\ (payments[id].verified_by # Null /\ payments[id].verification_date # Null)
               <=> payments[id].status \in {"verified", "rejected"}
        /\ payments[id].status = "pending" =>
               /\ payments[id].verified_by = Null
               /\ payments[id].verification_date = Null
        /\ payments[id].status \in {"pending", "verified", "rejected"}

\* one row was verified by a staff user at a time, the other is still pending
C35_Witness ==
    /\ Len(payments) = 2
    /\ payments[1].status = "verified"
    /\ payments[1].verified_by = Some("opA")
    /\ payments[1].verification_date = Some(1)
    /\ payments[2].status = "pending"
    /\ payments[2].verified_by = Null

\* the notices sent for payment id
NoticesOf(ns, id) == {i \in DOMAIN ns : ns[i].payment = id}

StartedInMinuteOf(t) ==
    /\ sched.pc \in {"run", "sleep60"}
    /\ IsReportTime(sched.seen)
    /\ sched.seen <= t
    /\ t - sched.seen < MinuteTicks

C37_RowOnlyAfterPhotoForStartUnit ==
    [][Len(payments') > Len(payments) =>
          \E t \in TelegramIds, c \in Chats :
             /\ \E text \in ChatTexts : message_text(t, c, text)
             /\ Talk(t, c).payment = "DETAILS_ENTRY"
             /\ Talk(t, c).photo_stored
             /\ payments'[Len(payments')].status = "pending"
             /\ payments'[Len(payments')].receipt_filename # Null
             /\ Some(payments'[Len(payments')].unit) = Talk(t, c).started_for]_vars

\* every unit's balance is as it was
BalancesUnchanged ==
    \A u \in Units : residents'[u].current_balance = residents[u].current_balance

\* C33: a balance changes only in the step of an approval, which runs
\* update_payment_status, and the stored report time only in the step in
\* which a report run updates it: inserting a payment, listing the pending
\* ones, the run's query, showing a receipt, a registration and every step
\* of a report run leave all balances as they were; inserting a payment,
\* saving a receipt record and a staff decision leave the stored time as it
\* was.
C33_BalanceAndStoredTimeHaveOneWriter ==
    [][/\ ~BalancesUnchanged =>
             \E id \in DOMAIN payments :
                /\ handle_payment_callback("opA", "approve", id)
                /\ payments[id].status = "pending"
                /\ payments'[id].status = "verified"
       /\ settings' # settings =>
             \E r \in Runners : run_finish(r) /\ settings' = Some(run[r].report_end_time)
       /\ Len(payments') > Len(payments) => BalancesUnchanged /\ settings' = settings
       /\ listing' # listing => BalancesUnchanged
       /\ (staff_reply' # staff_reply
             /\ staff_reply' \in {"receipt_caption", "receipt_send_error"}) => BalancesUnchanged
       /\ registered' # registered => BalancesUnchanged
       /\ run' # run => BalancesUnchanged
       /\ (docs' # docs \/ img' # img) => settings' = settings
       /\ (\E id \in DOMAIN payments : payments'[id].status # payments[id].status)
             => settings' = settings]_vars

\* a payment was approved and credited, another inserted after it, the user
\* registered, the pending payments listed and a report run made: the
\* balance holds the one credit and the stored time the run's end
C33_Witness ==
    /\ Len(payments) = 2
    /\ payments[1].status = "verified"
    /\ payments[2].status = "pending"
    /\ residents["88/02"].current_balance = SeedBalance("88/02") + 50000
    /\ residents["88/01"].current_balance = SeedBalance("88/01")
    /\ registered # Null
    /\ listing # Null
    /\ docs # <<>>
    /\ settings # Null
    /\ \A r \in Threads : run[r].pc = "idle"

====
